---- MODULE Spec2Model ----
EXTENDS Integers, Sequences, FiniteSets, TLC

(***************************************************************************)
(* Model of two parts of the repository:                                   *)
(*   - the sandbox migrator  (backend/src/common/common_utils/sandbox.py)  *)
(*   - the annotation merge engine (command/mir/tools/annotations.py)      *)
(* Spec      : the sandbox migration (version detection, then update()).   *)
(* SpecMerge : merge_annotations on bounded host / guest annotation sets.  *)
(* SpecMatch : match_asset_ids on all pairs of bounded id sets.            *)
(***************************************************************************)

VARIABLES
    \* ---- sandbox migration ----
    root,       \* sandbox root: entry name -> directory content
    backup,     \* [exists, entries]: the <root>/backup directory
    root0,      \* history: the sandbox root before the migration started
    backup0,    \* history: the backup directory before the migration started
    nfuncs,     \* len(update_funcs)
    plan,       \* (user, repo) pairs in the iteration order of update()
    pos,        \* number of upgrade calls that returned normally
    calls,      \* history: the upgrade calls made, in order
    pc,         \* position of the migration
    err,        \* the exception that left the migration, if any
    phases,     \* history: the phases update() went through
    \* ---- merge_annotations ----
    host,       \* host_mir_annotations (mutated in place)
    guest,      \* guest_mir_annotations
    host0,      \* history: host_mir_annotations before the call
    guest0,     \* history: guest_mir_annotations before the call
    strategy,   \* the strategy argument
    mpc,        \* position inside merge_annotations
    merr,       \* the exception raised by merge_annotations, if any
    matched,    \* the last call of match_asset_ids: its arguments and its result
    \* ---- copy_annotations, filter_annotations, mining_annotations ----
    mir_annotations,          \* the mir_annotations argument (copy_annotations mutates it)
    mir_annotations0,         \* history: mir_annotations before the call
    mir_context,              \* the mir_context argument: per-class statistics
    label_files,              \* label file path -> the registry stored in it
    data_label_storage_file,  \* path of the source label file
    label_storage_file,       \* path of the destination label file
    asset_ids_set,            \* the asset ids to keep
    sampled_asset_ids,        \* sampling: the list of asset ids chosen by the caller
    add_prediction,           \* mining: fresh inference requested
    model_storage,            \* mining: the model and the inference output in work_out_dir
    tret,                     \* the value returned by the call
    tpc,                      \* position of the call
    \* ---- import_annotations ----
    class_type_manager,       \* the registry loaded from label_storage_file
    class_type_manager0,      \* history: the registry before the import
    anno_import_result,       \* name -> count, accumulated over both directories
    mir_annotation,           \* the annotation set that is filled
    prediction_dir,           \* content of prediction_dir_path
    groundtruth_dir,          \* content of groundtruth_dir_path
    unknown_types_strategy,   \* STOP / IGNORE / ADD
    anno_type,                \* the declared annotation type
    ipc,                      \* position inside import_annotations
    ierr                      \* the exception raised by import_annotations, if any

sandboxVars == <<root, backup, root0, backup0, nfuncs, plan, pos, calls, pc, err, phases>>
mergeVars == <<host, guest, host0, guest0, strategy, mpc, merr, matched>>
toolVars == <<mir_annotations, mir_annotations0, mir_context, label_files, data_label_storage_file,
              label_storage_file, asset_ids_set, sampled_asset_ids, add_prediction, model_storage, tret, tpc>>
importVars == <<class_type_manager, class_type_manager0, anno_import_result, mir_annotation,
                prediction_dir, groundtruth_dir, unknown_types_strategy, anno_type, ipc, ierr>>
vars == <<root, backup, root0, backup0, nfuncs, plan, pos, calls, pc, err, phases,
          host, guest, host0, guest0, strategy, mpc, merr, matched,
          mir_annotations, mir_annotations0, mir_context, label_files, data_label_storage_file,
          label_storage_file, asset_ids_set, sampled_asset_ids, add_prediction, model_storage, tret, tpc,
          class_type_manager, class_type_manager0, anno_import_result, mir_annotation,
          prediction_dir, groundtruth_dir, unknown_types_strategy, anno_type, ipc, ierr>>

\* ------------------------------------------------------------------ bounds
MaxFuncs == 2
MaxAsset == 3
MaxMatchId == 4

\* ------------------------------------------------------- generic helpers
EmptyMap == <<>>
Restrict(f, S) == [x \in S |-> f[x]]
Put(f, k, v) == [x \in (DOMAIN f) \cup {k} |-> IF x = k THEN v ELSE f[x]]
Remove(f, k) == [x \in (DOMAIN f) \ {k} |-> f[x]]
Perms(S) == {s \in [1..Cardinality(S) -> S] : \A i, j \in 1..Cardinality(S) : s[i] = s[j] => i = j}
\* the element of a one-element set: evaluates its argument once
Only(S) == CHOOSE x \in S : TRUE
RECURSIVE Flatten(_)
Flatten(ss) == IF ss = <<>> THEN <<>> ELSE Head(ss) \o Flatten(Tail(ss))

\* =========================================================================
\*                           SANDBOX MIGRATION
\* =========================================================================

\* IDProto.ID_LEN_USER_ID / IDProto.ID_LEN_REPO_ID, the widths used by the patterns
ID_LEN_USER_ID == 4
ID_LEN_REPO_ID == 6
Digits == {"0", "1", "2", "3", "4", "5", "6", "7", "8", "9"}

\* directory names, as character sequences
U1 == <<"0", "0", "0", "1">>
U2 == <<"0", "0", "0", "2">>
U3 == <<"0", "0", "0", "3">>
R1 == <<"0", "0", "0", "0", "0", "1">>
R2 == <<"0", "0", "0", "0", "0", "2">>
OtherDir == <<"w", "o", "r", "k">>
UserNames == {U1, U2, U3}
RepoNames == {R1, R2}

\* content of labels.yaml: missing/unparsable, without a ymir_version key, or a version
LabelVals == {"missing", "nokey", "1.1.0", "2.0.0"}
DEFAULT_YMIR_SRC_VERSION == "1.1.0"

NoErr == [kind |-> "none", at |-> <<>>]

\* a directory below the sandbox root: its labels.yaml and its sub-directories
\* (U3 is a user that owns no repository yet)
ReposOf(u) == IF u = U3 THEN {} ELSE RepoNames
DirVals(u) == {[labels |-> l, repos |-> [r \in rs |-> [git |-> TRUE, data |-> 0]]] :
                  l \in LabelVals, rs \in SUBSET ReposOf(u)}
OtherDirVal == [labels |-> "missing", repos |-> EmptyMap]
Roots == UNION {{Put(f, OtherDir, OtherDirVal) :
                    f \in {g \in [us -> UNION {DirVals(u) : u \in us}] : \A u \in us : g[u] \in DirVals(u)}} :
                us \in SUBSET UserNames}
StaleBackup == [exists |-> TRUE,
                entries |-> Put(EmptyMap, U1, [labels |-> "1.1.0", repos |-> EmptyMap])]
Backups == {[exists |-> FALSE, entries |-> EmptyMap], [exists |-> TRUE, entries |-> EmptyMap], StaleBackup}

\* re.match(r"\d{n}", name): the pattern is matched at the start of the name
MatchDigits(name, n) == Len(name) >= n /\ \A i \in 1..n : name[i] \in Digits

\* _detect_users_and_repos: user id -> repo ids
DetectUsersAndRepos(fs) ==
    [u \in {n \in DOMAIN fs : MatchDigits(n, ID_LEN_USER_ID)} |->
        {r \in DOMAIN fs[u].repos : MatchDigits(r, ID_LEN_REPO_ID) /\ fs[u].repos[r].git}]

\* user_label_dict.get('ymir_version', version.DEFAULT_YMIR_SRC_VERSION)
DeclaredVersion(label) == IF label = "nokey" THEN DEFAULT_YMIR_SRC_VERSION ELSE label

\* mutant: the version count is tested with "< 1" instead of "!= 1"
DetectSrcVerErrorLax(fs) ==
    LET users == DOMAIN DetectUsersAndRepos(fs)
        vers == {DeclaredVersion(fs[u].labels) : u \in users}
    IN  IF \E u \in users : fs[u].labels = "missing"
        THEN [kind |-> "InvalidUserLabelFile", at |-> <<>>]
        ELSE IF Cardinality(vers) < 1
        THEN [kind |-> "InvalidUserSpaceVersions", at |-> <<>>]
        ELSE NoErr

\* detect_sandbox_src_ver: the error it raises, or NoErr
DetectSrcVerError(fs) ==
    LET users == DOMAIN DetectUsersAndRepos(fs)
        vers == {DeclaredVersion(fs[u].labels) : u \in users}
    IN  IF \E u \in users : fs[u].labels = "missing"
        THEN [kind |-> "InvalidUserLabelFile", at |-> <<>>]
        ELSE IF Cardinality(vers) # 1
        THEN [kind |-> "InvalidUserSpaceVersions", at |-> <<>>]
        ELSE NoErr

\* the iteration orders of user_to_repos.items() and of each repo set
Plans(fs) ==
    LET u2r == DetectUsersAndRepos(fs)
        RepoOrders(u) == {[i \in 1..Len(p) |-> [user |-> u, repo |-> p[i]]] : p \in Perms(u2r[u])}
    IN  UNION {{Flatten(ch) : ch \in {c \in [1..Len(us) -> UNION {RepoOrders(u) : u \in DOMAIN u2r}] :
                                          \A i \in 1..Len(us) : c[i] \in RepoOrders(us[i])}} :
               us \in Perms(DOMAIN u2r)}

\* one update_func(mir_root=...) call changes the content of that repository
ApplyUpdateFunc(fs, u, r) ==
    IF u \in DOMAIN fs /\ r \in DOMAIN fs[u].repos
    THEN [fs EXCEPT ![u].repos[r].data = @ + 1]
    ELSE fs

\* mutant: the emptiness test of the backup directory is missing
BackupDirNotEmptySkipped(bk) == FALSE

\* _backup, line 78: os.listdir(backup_dir) is non-empty
BackupDirNotEmpty(bk) == DOMAIN bk.entries # {}

\* mutant: the loops over repositories and over functions are swapped
CallAtSwapped(p, n, k) ==
    [user |-> p[(k % Len(p)) + 1].user, repo |-> p[(k % Len(p)) + 1].repo, func |-> (k \div Len(p)) + 1]

\* the k-th (0-based) update_func call of the nested loops of update(), lines 63-66
CallAt(p, n, k) == [user |-> p[(k \div n) + 1].user, repo |-> p[(k \div n) + 1].repo, func |-> (k % n) + 1]

\* the caller of the migrator: update() runs only when version detection returned
AfterDetect(e) == IF e = NoErr THEN "update" ELSE "raised"

\* mutant: nothing is copied into the backup directory
BackupCopyNothing(fs) == EmptyMap

\* _backup: copytree of every detected user directory into the backup directory
BackupCopy(fs) == Restrict(fs, DOMAIN DetectUsersAndRepos(fs))

\* mutant: only one user directory is restored
RollBackUsersFirstOnly(fs, bk, order) ==
    IF order = <<>> THEN [fs |-> fs, ok |-> TRUE]
    ELSE [fs |-> Put(fs, Head(order), bk[Head(order)]), ok |-> TRUE]

\* _roll_back, the loop: rmtree the live directory, copytree the backed-up one;
\* copytree raises when the backed-up directory does not exist
RECURSIVE RollBackUsers(_, _, _)
RollBackUsers(fs, bk, order) ==
    IF order = <<>> THEN [fs |-> fs, ok |-> TRUE]
    ELSE LET u == Head(order)
         IN  IF u \in DOMAIN bk
             THEN RollBackUsers(Put(fs, u, bk[u]), bk, Tail(order))
             ELSE [fs |-> Remove(fs, u), ok |-> FALSE]

SandboxInit ==
    /\ root \in Roots
    /\ backup \in Backups
    /\ root0 = root
    /\ backup0 = backup
    /\ nfuncs \in 1..MaxFuncs
    /\ plan = <<>>
    /\ pos = 0
    /\ calls = <<>>
    /\ pc = "detect"
    /\ err = NoErr
    /\ phases = <<>>

\* detect_sandbox_src_ver(sandbox_root), called before update()
DetectSandboxSrcVer ==
    /\ pc = "detect"
    /\ err' = DetectSrcVerError(root)
    /\ pc' = AfterDetect(err')
    /\ UNCHANGED <<root, backup, root0, backup0, nfuncs, plan, pos, calls, phases>>
    /\ UNCHANGED <<mergeVars, toolVars, importVars>>

\* update(), lines 59-61: _backup(sandbox_root), then _detect_users_and_repos
Backup ==
    /\ pc = "update"
    /\ IF BackupDirNotEmpty(backup)
       THEN /\ err' = [kind |-> "BackupDirNotEmpty", at |-> <<>>]
            /\ pc' = "raised"
            /\ backup' = [exists |-> TRUE, entries |-> backup.entries]
            /\ UNCHANGED <<plan, phases>>
       ELSE /\ backup' = [exists |-> TRUE, entries |-> BackupCopy(root)]
            /\ plan' \in Plans(root)
            /\ pc' = "upgrade"
            /\ phases' = Append(phases, "backup")
            /\ UNCHANGED err
    /\ UNCHANGED <<root, root0, backup0, nfuncs, pos, calls>>
    /\ UNCHANGED <<mergeVars, toolVars, importVars>>

\* update(), lines 63-67: the next update_func call; it returns or raises
Upgrade ==
    /\ pc = "upgrade"
    /\ pos < Len(plan) * nfuncs
    /\ LET t == CallAt(plan, nfuncs, pos)
           f == t.func
       IN  \E raises \in BOOLEAN, applied \in BOOLEAN :
              /\ ~raises => applied
              /\ root' = IF applied THEN ApplyUpdateFunc(root, t.user, t.repo) ELSE root
              /\ calls' = Append(calls, [user |-> t.user, repo |-> t.repo, func |-> f, raised |-> raises])
              /\ IF raises
                 THEN /\ pc' = "rollback"
                      /\ err' = [kind |-> "UpgradeError", at |-> <<t.user, t.repo, f>>]
                      /\ pos' = pos
                 ELSE /\ pc' = "upgrade"
                      /\ pos' = pos + 1
                      /\ UNCHANGED err
    /\ phases' = IF phases # <<>> /\ phases[Len(phases)] = "upgrade" THEN phases ELSE Append(phases, "upgrade")
    /\ UNCHANGED <<backup, root0, backup0, nfuncs, plan>>
    /\ UNCHANGED <<mergeVars, toolVars, importVars>>

\* update(), lines 67-69: _roll_back(sandbox_root), then raise e
RollBack ==
    /\ pc = "rollback"
    /\ \E order \in Perms(DOMAIN DetectUsersAndRepos(root)) :
          LET res == RollBackUsers(root, backup.entries, order)
          IN  /\ root' = res.fs
              /\ IF res.ok
                 THEN /\ backup' = [exists |-> FALSE, entries |-> EmptyMap]
                      /\ UNCHANGED err
                 ELSE /\ err' = [kind |-> "FileNotFoundError", at |-> <<>>]
                      /\ UNCHANGED backup
    /\ pc' = "raised"
    /\ phases' = Append(phases, "rollback")
    /\ UNCHANGED <<root0, backup0, nfuncs, plan, pos, calls>>
    /\ UNCHANGED <<mergeVars, toolVars, importVars>>

\* mutant: the backup directory is left behind on success
CleanupKeepsBackup ==
    /\ pc = "upgrade"
    /\ pos = Len(plan) * nfuncs
    /\ pc' = "done"
    /\ phases' = Append(phases, "cleanup")
    /\ UNCHANGED <<root, backup, root0, backup0, nfuncs, plan, pos, calls, err>>
    /\ UNCHANGED <<mergeVars, toolVars, importVars>>

\* update(), line 72: _remove_backup(sandbox_root)
Cleanup ==
    /\ pc = "upgrade"
    /\ pos = Len(plan) * nfuncs
    /\ backup' = [exists |-> FALSE, entries |-> EmptyMap]
    /\ pc' = "done"
    /\ phases' = Append(phases, "cleanup")
    /\ UNCHANGED <<root, root0, backup0, nfuncs, plan, pos, calls, err>>
    /\ UNCHANGED <<mergeVars, toolVars, importVars>>

\* -------------------------------------------- sandbox roots with odd names
\* names that begin like an id and go on: "0001x", "000001.bak"
UX == <<"0", "0", "0", "1", "x">>
RX == <<"0", "0", "0", "0", "0", "1", ".", "b", "a", "k">>
BackupName == <<"b", "a", "c", "k", "u", "p">>
Repo(git) == [git |-> git, data |-> 0]
RepoSets == {Put(Put(EmptyMap, R1, Repo(TRUE)), RX, Repo(TRUE)),
             Put(Put(EmptyMap, R1, Repo(TRUE)), R2, Repo(FALSE))}
UserDirVals == {[labels |-> "1.1.0", repos |-> rs] : rs \in RepoSets}
NewUserDir == [labels |-> "1.1.0", repos |-> EmptyMap]
OddRoots == UNION {{Put(f, OtherDir, OtherDirVal) : f \in [us -> UserDirVals]} : us \in SUBSET {U1, U2, UX}}

UsersInit ==
    /\ root \in OddRoots
    /\ backup = [exists |-> FALSE, entries |-> EmptyMap]
    /\ root0 = root
    /\ backup0 = backup
    /\ nfuncs = 1
    /\ plan = <<>>
    /\ pos = 0
    /\ calls = <<>>
    /\ pc = "detect"
    /\ err = NoErr
    /\ phases = <<>>

\* what an update function can do to the user directories of the sandbox:
\* delete one, create one, rename one
UserChanges(fs) ==
    {Remove(fs, u) : u \in DOMAIN DetectUsersAndRepos(fs)}
        \cup (IF U3 \in DOMAIN fs THEN {}
              ELSE {Put(fs, U3, NewUserDir)} \cup
                   {Put(Remove(fs, u), U3, fs[u]) : u \in DOMAIN DetectUsersAndRepos(fs)})

\* update(), lines 63-67: an update_func call that changes the user
\* directories of the sandbox, the first one to do so; it returns or raises
UpgradeChangesUsers ==
    /\ pc = "upgrade"
    /\ pos < Len(plan) * nfuncs
    /\ DOMAIN root = DOMAIN root0
    /\ LET t == CallAt(plan, nfuncs, pos)
       IN  \E raises \in BOOLEAN, changed \in UserChanges(root) :
              /\ root' = changed
              /\ calls' = Append(calls, [user |-> t.user, repo |-> t.repo, func |-> t.func, raised |-> raises])
              /\ IF raises
                 THEN /\ pc' = "rollback"
                      /\ err' = [kind |-> "UpgradeError", at |-> <<t.user, t.repo, t.func>>]
                      /\ pos' = pos
                 ELSE /\ pc' = "upgrade"
                      /\ pos' = pos + 1
                      /\ UNCHANGED err
    /\ phases' = IF phases # <<>> /\ phases[Len(phases)] = "upgrade" THEN phases ELSE Append(phases, "upgrade")
    /\ UNCHANGED <<backup, root0, backup0, nfuncs, plan>>
    /\ UNCHANGED <<mergeVars, toolVars, importVars>>

\* =========================================================================
\*                            MERGE ENGINE
\* =========================================================================

\* mirpb.AnnoType; AT_UNKNOWN is the zero value of the enum, the only falsy one
AT_UNKNOWN == "AT_UNKNOWN"
AT_DET_BOX == "AT_DET_BOX"
AT_SEG_MASK == "AT_SEG_MASK"

NoMergeErr == [kind |-> "none", pair |-> "none"]
NoMatch == [args |-> <<{}, {}>>, out |-> <<{}, {}, {}>>]

Strategies == {"stop", "host", "guest", "STOP", "Host", "GUEST"}

\* str.lower() on the strategy names
Lower(s) ==
    CASE s \in {"stop", "STOP", "Stop"} -> "stop"
      [] s \in {"host", "HOST", "Host"} -> "host"
      [] s \in {"guest", "GUEST", "Guest"} -> "guest"
      [] OTHER -> s

\* the entries of the two sides: an ImageAnnotations (list of class ids of its
\* boxes) or an ImageCks (its tags); host and guest hold different content for
\* the same asset
Image(owner, a) == [boxes |-> IF owner = "host" THEN <<a>> ELSE <<a, a + 1>>, img_class_ids |-> {a, a + 1}]
Cks(owner, a) == [cks |-> <<owner, a>>, image_quality |-> a]
HostEvalClassIds == <<0>>
GuestEvalClassIds == <<0, 1>>

Task(owner, type, ids, evalIds) ==
    [type |-> type, image_annotations |-> [a \in ids |-> Image(owner, a)], eval_class_ids |-> evalIds]

\* mutant: the joint ids are not removed from the guest's ids
MatchAssetIdsGuestAll(host_ids, guest_ids) ==
    LET insets == host_ids \cap guest_ids
    IN  <<host_ids \ insets, guest_ids, insets>>

\* match_asset_ids
MatchAssetIds(host_ids, guest_ids) ==
    LET insets == host_ids \cap guest_ids
    IN  <<host_ids \ insets, guest_ids \ insets, insets>>

\* mutant: the guest's type is never taken over
TypeOrHostOnly(h, g) == h

\* host_annotation.type or guest_annotation.type
TypeOr(h, g) == IF h # AT_UNKNOWN THEN h ELSE g

\* mutant: under "guest" a joint entry is copied only when the target lacks it
MergeEntriesNoOverwrite(hostm, guestm, targetm, m, strat) ==
    LET written == m[1] \cup m[2] \cup {a \in m[3] : a \notin DOMAIN targetm}
    IN  [a \in (DOMAIN targetm) \cup written |->
            IF a \in m[1] THEN hostm[a]
            ELSE IF a \in m[2] THEN guestm[a]
            ELSE IF a \in written
                 THEN (IF Lower(strat) = "host" THEN hostm[a] ELSE guestm[a])
                 ELSE targetm[a]]

\* mutant: the guest-only entries are not copied
MergeEntriesNoGuestOnly(hostm, guestm, targetm, m, strat) ==
    LET written == m[1] \cup
                   {a \in m[3] : \/ Lower(strat) = "host" /\ a \notin DOMAIN targetm
                                 \/ Lower(strat) # "host" /\ Lower(strat) = "guest"}
    IN  [a \in (DOMAIN targetm) \cup written |->
            IF a \in m[1] THEN hostm[a]
            ELSE IF a \in written
                 THEN (IF Lower(strat) = "host" THEN hostm[a] ELSE guestm[a])
                 ELSE targetm[a]]

\* the three copy loops shared by _merge_pair_annotations and
\* _merge_annotation_image_cks: the target map after them
MergeEntries(hostm, guestm, targetm, m, strat) ==
    LET written == m[1] \cup m[2] \cup
                   {a \in m[3] : \/ Lower(strat) = "host" /\ a \notin DOMAIN targetm
                                 \/ Lower(strat) # "host" /\ Lower(strat) = "guest"}
    IN  [a \in (DOMAIN targetm) \cup written |->
            IF a \in m[1] THEN hostm[a]
            ELSE IF a \in m[2] THEN guestm[a]
            ELSE IF a \in written
                 THEN (IF Lower(strat) = "host" THEN hostm[a] ELSE guestm[a])
                 ELSE targetm[a]]

\* _merge_pair_annotations with target_annotation = host_annotation:
\* the host task annotations after the call and the exception raised
MergePairAnnotations(ha, ga, strat) ==
    IF ha.type # AT_UNKNOWN /\ ga.type # AT_UNKNOWN /\ ha.type # ga.type
    THEN [target |-> ha, err |-> "InvalidAnnoType", matched |-> matched]
    ELSE LET typed == [ha EXCEPT !.type = TypeOr(ha.type, ga.type)]
             args == <<DOMAIN ha.image_annotations, DOMAIN ga.image_annotations>>
             m == MatchAssetIds(args[1], args[2])
         IN  IF strat = "stop" /\ m[3] # {}
             THEN [target |-> typed, err |-> "MergeConflict", matched |-> [args |-> args, out |-> m]]
             ELSE [target |-> [typed EXCEPT !.image_annotations =
                                  MergeEntries(ha.image_annotations, ga.image_annotations,
                                               typed.image_annotations, m, strat)],
                   err |-> "none", matched |-> [args |-> args, out |-> m]]

\* _merge_annotation_image_cks with target_mir_annotations = host_mir_annotations
MergeAnnotationImageCks(hc, gc, strat) ==
    LET m == MatchAssetIds(DOMAIN hc, DOMAIN gc)
    IN  IF strat = "stop" /\ m[3] # {}
        THEN [target |-> hc, err |-> "MergeConflict",
              matched |-> [args |-> <<DOMAIN hc, DOMAIN gc>>, out |-> m]]
        ELSE [target |-> MergeEntries(hc, gc, hc, m, strat), err |-> "none",
              matched |-> [args |-> <<DOMAIN hc, DOMAIN gc>>, out |-> m]]

\* the bounded inputs: the host holds assets 1..h, the guest assets g..MaxAsset
\* (the same assets in its predictions, ground truth and custom keys)
HostKeySets == {1..h : h \in 0..MaxAsset}
GuestKeySets == {g..MaxAsset : g \in 1..(MaxAsset + 1)}
HostTypes == {AT_UNKNOWN, AT_DET_BOX}
GuestTypes == {AT_UNKNOWN, AT_DET_BOX, AT_SEG_MASK}

MergeInit ==
    /\ \E hp \in HostKeySets, hg \in HostKeySets, hc \in HostKeySets,
          tp \in HostTypes, tg \in HostTypes :
          host = [prediction |-> Task("host", tp, hp, HostEvalClassIds),
                  ground_truth |-> Task("host", tg, hg, <<>>),
                  image_cks |-> [a \in hc |-> Cks("host", a)]]
    /\ \E gk \in GuestKeySets, tp \in GuestTypes, tg \in GuestTypes :
          guest = [prediction |-> Task("guest", tp, gk, GuestEvalClassIds),
                   ground_truth |-> Task("guest", tg, gk, <<>>),
                   image_cks |-> [a \in gk |-> Cks("guest", a)]]
    /\ host0 = host
    /\ guest0 = guest
    /\ strategy \in Strategies
    /\ mpc = "prediction"
    /\ merr = NoMergeErr
    /\ matched = NoMatch

\* merge_annotations, lines 473-477: the prediction pair, then eval_class_ids
MergePrediction ==
    /\ mpc = "prediction"
    /\ LET res == MergePairAnnotations(host.prediction, guest.prediction, strategy)
       IN  /\ matched' = res.matched
           /\ IF res.err # "none"
              THEN /\ host' = [host EXCEPT !.prediction = res.target]
                   /\ merr' = [kind |-> res.err, pair |-> "prediction"]
                   /\ mpc' = "raised"
              ELSE /\ host' = [host EXCEPT !.prediction =
                                  [res.target EXCEPT !.eval_class_ids = @ \o guest.prediction.eval_class_ids]]
                   /\ mpc' = "ground_truth"
                   /\ UNCHANGED merr
    /\ UNCHANGED <<guest, host0, guest0, strategy>>
    /\ UNCHANGED <<sandboxVars, toolVars, importVars>>

\* mutant: a failure of the ground-truth pair restores the host
MergeGroundTruthRollsBack ==
    /\ mpc = "ground_truth"
    /\ LET res == MergePairAnnotations(host.ground_truth, guest.ground_truth, strategy)
       IN  /\ matched' = res.matched
           /\ IF res.err # "none"
              THEN /\ host' = host0
                   /\ merr' = [kind |-> res.err, pair |-> "ground_truth"]
                   /\ mpc' = "raised"
              ELSE /\ host' = [host EXCEPT !.ground_truth = res.target]
                   /\ mpc' = "image_cks"
                   /\ UNCHANGED merr
    /\ UNCHANGED <<guest, host0, guest0, strategy>>
    /\ UNCHANGED <<sandboxVars, toolVars, importVars>>

\* merge_annotations, lines 479-482: the ground-truth pair
MergeGroundTruth ==
    /\ mpc = "ground_truth"
    /\ LET res == MergePairAnnotations(host.ground_truth, guest.ground_truth, strategy)
       IN  /\ matched' = res.matched
           /\ host' = [host EXCEPT !.ground_truth = res.target]
           /\ IF res.err # "none"
              THEN /\ merr' = [kind |-> res.err, pair |-> "ground_truth"]
                   /\ mpc' = "raised"
              ELSE /\ mpc' = "image_cks"
                   /\ UNCHANGED merr
    /\ UNCHANGED <<guest, host0, guest0, strategy>>
    /\ UNCHANGED <<sandboxVars, toolVars, importVars>>

\* merge_annotations, lines 484-487: the custom keys
MergeImageCks ==
    /\ mpc = "image_cks"
    /\ LET res == MergeAnnotationImageCks(host.image_cks, guest.image_cks, strategy)
       IN  /\ matched' = res.matched
           /\ host' = [host EXCEPT !.image_cks = res.target]
           /\ IF res.err # "none"
              THEN /\ merr' = [kind |-> res.err, pair |-> "image_cks"]
                   /\ mpc' = "raised"
              ELSE /\ mpc' = "done"
                   /\ UNCHANGED merr
    /\ UNCHANGED <<guest, host0, guest0, strategy>>
    /\ UNCHANGED <<sandboxVars, toolVars, importVars>>

\* match_asset_ids on arbitrary id sets
MatchInit ==
    /\ \E h \in SUBSET (1..MaxMatchId), g \in SUBSET (1..MaxMatchId) :
          matched = [args |-> <<h, g>>, out |-> <<{}, {}, {}>>]
    /\ mpc = "match"
    /\ host = EmptyMap
    /\ guest = EmptyMap
    /\ host0 = EmptyMap
    /\ guest0 = EmptyMap
    /\ strategy = ""
    /\ merr = NoMergeErr

MatchCall ==
    /\ mpc = "match"
    /\ matched' = [matched EXCEPT !.out = MatchAssetIds(matched.args[1], matched.args[2])]
    /\ mpc' = "matched"
    /\ UNCHANGED <<host, guest, host0, guest0, strategy, merr>>
    /\ UNCHANGED <<sandboxVars, toolVars, importVars>>

\* =========================================================================
\*                  CLASS-ID REGISTRY (class_ids.UserLabels)
\* =========================================================================

\* a registry is the list of its entries; the entry at position i has id i - 1
Entry(n, al) == [main_name |-> n, aliases |-> al]

\* UserLabels.id_and_main_name_for_name: (id, main name); id -1 for an unknown name
IdAndMainNameForName(reg, n) ==
    IF \E i \in 1..Len(reg) : n = reg[i].main_name \/ n \in reg[i].aliases
    THEN LET i == CHOOSE j \in 1..Len(reg) : n = reg[j].main_name \/ n \in reg[j].aliases
         IN  <<i - 1, reg[i].main_name>>
    ELSE <<-1, n>>

\* UserLabels.all_main_names and UserLabels.main_name_for_id
AllMainNames(reg) == {reg[i].main_name : i \in 1..Len(reg)}
MainNameForId(reg, id) == reg[id + 1].main_name

\* class_ids.load_or_create_userlabels(label_storage_file=path)
LoadOrCreateUserlabels(files, path) == IF path \in DOMAIN files THEN files[path] ELSE <<>>

\* =========================================================================
\*                 COPY / FILTER / MINING OF ANNOTATION SETS
\* =========================================================================

MaxToolAsset == 2
MaxBoxes == 3

\* the source label file of the bounded inputs, and the destination label files
SrcRegistry == <<Entry("cat", {}), Entry("dog", {"hound"}), Entry("bird", {})>>
DstRegistries ==
    {SrcRegistry,
     <<>>,
     <<Entry("cat", {})>>,
     <<Entry("bird", {})>>,
     <<Entry("dog", {}), Entry("cat", {})>>,
     <<Entry("dog", {}), Entry("bird", {}), Entry("cat", {})>>,
     <<Entry("fish", {}), Entry("bird", {}), Entry("dog", {})>>,
     <<Entry("animal", {"cat", "dog"})>>}
SrcLabelFile == "src/labels.yaml"
DstLabelFile == "dst/labels.yaml"

\* mirpb.ObjectAnnotation, mirpb.SingleImageAnnotations, mirpb.SingleTaskAnnotations
Object(cid, idx) == [class_id |-> cid, index |-> idx]
ToolImage(s, l) ==
    [boxes |-> [i \in 1..l |-> Object((s + i - 1) % Len(SrcRegistry), i - 1)], masks |-> <<>>,
     img_class_ids |-> {(s + i - 1) % Len(SrcRegistry) : i \in 1..l}]
ToolTask(type, k, s, l, evalIds, cfg, model) ==
    [type |-> type, image_annotations |-> [a \in 1..k |-> ToolImage(s + a, l)], map_id_color |-> EmptyMap,
     eval_class_ids |-> evalIds, executor_config |-> cfg, model |-> model]
EmptyTask == ToolTask(AT_UNKNOWN, 0, 0, 0, <<>>, "", "")

\* the bounded annotation sets: every class id they hold is an id of SrcRegistry
MirAnnotationSets ==
    {[prediction |-> ToolTask(AT_DET_BOX, pk, ps, pl, pe, "{cfg}", "model-1"),
      ground_truth |-> ToolTask(gt, gk, 1, gl, <<1, 2>>, "", ""),
      image_cks |-> [a \in 1..ck |-> Cks("src", a)]] :
        pk \in 0..MaxToolAsset, ps \in 0..1, pl \in 0..MaxBoxes, pe \in {<<>>, <<2, 0, 1>>},
        gt \in {AT_DET_BOX}, gk \in 0..MaxToolAsset, gl \in 0..MaxBoxes, ck \in 0..MaxToolAsset}

\* mirpb.MirContext: class id -> count, for the predictions and for the ground truth
ClassIdsCnt(task) ==
    LET occ == {<<a, i>> \in (DOMAIN task.image_annotations) \X (1..MaxBoxes + 1) :
                    i <= Len(task.image_annotations[a].boxes)}
        ids == {task.image_annotations[q[1]].boxes[q[2]].class_id : q \in occ}
    IN  [c \in ids |-> Cardinality({q \in occ : task.image_annotations[q[1]].boxes[q[2]].class_id = c})]
ContextOf(ann) == [pred_stats |-> ClassIdsCnt(ann.prediction), gt_stats |-> ClassIdsCnt(ann.ground_truth)]

\* mutant: only the comparison of the two paths is made
NoChangeNeededSamePathOnly(ann, src_file, dst_file) == src_file = dst_file

\* copy_annotations, lines 367-369: no need to make any changes to annotations
NoChangeNeeded(ann, src_file, dst_file) ==
    \/ src_file = dst_file
    \/ /\ DOMAIN ann.prediction.image_annotations = {}
       /\ DOMAIN ann.ground_truth.image_annotations = {}

\* copy_annotations, lines 377-380: source id -> destination id (-1 without counterpart)
SrcToDstIds(src, dst) ==
    LET names == AllMainNames(src)
        SrcId(n) == IdAndMainNameForName(src, n)[1]
    IN  [c \in {SrcId(n) : n \in names} |->
            IdAndMainNameForName(dst, CHOOSE n \in names : SrcId(n) = c)[1]]

\* _change_annotations_type_ids, lines 395-402: the boxes of one image
ChangeBoxes(boxes, m) ==
    LET kept == SelectSeq(boxes, LAMBDA b : m[b.class_id] >= 0)
    IN  [i \in 1..Len(kept) |-> [kept[i] EXCEPT !.class_id = m[@]]]

\* _change_annotations_type_ids, lines 404-409
ChangeEvalClassIds(ids, m) ==
    LET kept == SelectSeq(ids, LAMBDA c : m[c] >= 0)
    IN  [i \in 1..Len(kept) |-> m[kept[i]]]

\* mutant: eval_class_ids is left as it was
ChangeAnnotationsTypeIdsKeepEval(task, m) ==
    [task EXCEPT !.image_annotations = [a \in DOMAIN @ |-> [@[a] EXCEPT !.boxes = ChangeBoxes(@, m)]]]

\* _change_annotations_type_ids
ChangeAnnotationsTypeIds(task, m) ==
    [task EXCEPT !.image_annotations = [a \in DOMAIN @ |-> [@[a] EXCEPT !.boxes = ChangeBoxes(@, m)]],
                 !.eval_class_ids = ChangeEvalClassIds(@, m)]

\* class_ids_cnt[src_id] on a protobuf map: a missing key reads as 0
CntOf(cnt, id) == IF id \in DOMAIN cnt THEN cnt[id] ELSE 0

\* mutant: only the prediction statistics are counted
GenUnknownNamesAndCountPredOnly(src, ctx, m) ==
    LET all_src_class_ids == (DOMAIN ctx.pred_stats) \cup (DOMAIN ctx.gt_stats)
        unknown_src_class_ids == {c \in all_src_class_ids : m[c] = -1}
    IN  [n \in {MainNameForId(src, c) : c \in unknown_src_class_ids} |->
            LET c == CHOOSE d \in unknown_src_class_ids : MainNameForId(src, d) = n
            IN  CntOf(ctx.pred_stats, c)]

\* _gen_unknown_names_and_count: the returned map
GenUnknownNamesAndCount(src, ctx, m) ==
    LET all_src_class_ids == (DOMAIN ctx.pred_stats) \cup (DOMAIN ctx.gt_stats)
        unknown_src_class_ids == {c \in all_src_class_ids : m[c] = -1}
    IN  [n \in {MainNameForId(src, c) : c \in unknown_src_class_ids} |->
            LET c == CHOOSE d \in unknown_src_class_ids : MainNameForId(src, d) = n
            IN  CntOf(ctx.pred_stats, c) + CntOf(ctx.gt_stats, c)]

\* _gen_unknown_names_and_count, lines 423-424: reading a missing key of a
\* protobuf map inserts it with the value 0
TouchCnt(cnt, ids) == [c \in (DOMAIN cnt) \cup ids |-> CntOf(cnt, c)]
ContextAfterCount(ctx, m) ==
    LET unknown == {c \in (DOMAIN ctx.pred_stats) \cup (DOMAIN ctx.gt_stats) : m[c] = -1}
    IN  [pred_stats |-> TouchCnt(ctx.pred_stats, unknown), gt_stats |-> TouchCnt(ctx.gt_stats, unknown)]

\* no model takes part in the call
NoModel == [model_type |-> AT_UNKNOWN, class_names |-> <<>>]

CopyInit ==
    /\ mir_annotations \in MirAnnotationSets
    /\ mir_annotations0 = mir_annotations
    /\ mir_context = ContextOf(mir_annotations)
    /\ \E d \in DstRegistries :
          label_files = [f \in {SrcLabelFile, DstLabelFile} |-> IF f = SrcLabelFile THEN SrcRegistry ELSE d]
    /\ data_label_storage_file = SrcLabelFile
    /\ label_storage_file \in {SrcLabelFile, DstLabelFile}
    /\ asset_ids_set = {}
    /\ sampled_asset_ids = <<>>
    /\ add_prediction = FALSE
    /\ model_storage = NoModel
    /\ tret = EmptyMap
    /\ tpc = "copy"

\* copy_annotations
CopyAnnotations ==
    /\ tpc = "copy"
    /\ IF NoChangeNeeded(mir_annotations, data_label_storage_file, label_storage_file)
       THEN /\ tret' = EmptyMap
            /\ UNCHANGED <<mir_annotations, mir_context>>
       ELSE LET src_class_id_mgr == LoadOrCreateUserlabels(label_files, data_label_storage_file)
                dst_class_id_mgr == LoadOrCreateUserlabels(label_files, label_storage_file)
                src_to_dst_ids == SrcToDstIds(src_class_id_mgr, dst_class_id_mgr)
            IN  /\ mir_annotations' =
                       [mir_annotations EXCEPT
                           !.prediction = ChangeAnnotationsTypeIds(@, src_to_dst_ids),
                           !.ground_truth = ChangeAnnotationsTypeIds(@, src_to_dst_ids)]
                /\ tret' = GenUnknownNamesAndCount(src_class_id_mgr, mir_context, src_to_dst_ids)
                /\ mir_context' = ContextAfterCount(mir_context, src_to_dst_ids)
    /\ tpc' = "copied"
    /\ UNCHANGED <<mir_annotations0, label_files, data_label_storage_file, label_storage_file,
                   asset_ids_set, sampled_asset_ids, add_prediction, model_storage>>
    /\ UNCHANGED <<sandboxVars, mergeVars, importVars>>

\* mirpb.MirAnnotations(): a new, empty annotation set
NewMirAnnotations == [prediction |-> EmptyTask, ground_truth |-> EmptyTask, image_cks |-> EmptyMap]

\* dst[asset_id].CopyFrom(src[asset_id]) for every asset_id of ids
CopyEntries(srcm, dstm, ids) == [a \in (DOMAIN dstm) \cup ids |-> IF a \in ids THEN srcm[a] ELSE dstm[a]]

\* copy_annotations_pred_meta
CopyAnnotationsPredMeta(src_task, dst_task) ==
    [dst_task EXCEPT !.eval_class_ids = src_task.eval_class_ids,
                     !.executor_config = src_task.executor_config,
                     !.model = src_task.model]

\* mutant: every entry of the source is copied
GenFilterTaskAnnotationsAll(src_task, dst_task, asset_ids) ==
    [dst_task EXCEPT !.type = src_task.type,
                     !.image_annotations = CopyEntries(src_task.image_annotations, @,
                                                       DOMAIN src_task.image_annotations)]

\* _gen_filter_task_annotations
GenFilterTaskAnnotations(src_task, dst_task, asset_ids) ==
    LET joint_ids == asset_ids \cap DOMAIN src_task.image_annotations
    IN  [dst_task EXCEPT !.type = src_task.type,
                         !.image_annotations = CopyEntries(src_task.image_annotations, @, joint_ids)]

\* filter_annotations: the annotation set it returns
FilterAnnotations(ann, ids) ==
    LET m0 == NewMirAnnotations
        m1 == [m0 EXCEPT !.ground_truth = GenFilterTaskAnnotations(ann.ground_truth, @, ids)]
        m2 == [m1 EXCEPT !.prediction = GenFilterTaskAnnotations(ann.prediction, @, ids)]
        image_ck_asset_ids == ids \cap DOMAIN ann.image_cks
        m3 == [m2 EXCEPT !.image_cks = CopyEntries(ann.image_cks, @, image_ck_asset_ids)]
    IN  [m3 EXCEPT !.prediction = CopyAnnotationsPredMeta(ann.prediction, @)]

\* the asset-id sets handed to filter_annotations and mining_annotations
AssetIdSets == SUBSET (1..(MaxToolAsset + 1))

FilterInit ==
    /\ mir_annotations \in MirAnnotationSets
    /\ mir_annotations0 = mir_annotations
    /\ asset_ids_set \in AssetIdSets
    /\ sampled_asset_ids = <<>>
    /\ mir_context = EmptyMap
    /\ label_files = EmptyMap
    /\ data_label_storage_file = ""
    /\ label_storage_file = ""
    /\ add_prediction = FALSE
    /\ model_storage = NoModel
    /\ tret = EmptyMap
    /\ tpc = "filter"

\* filter_annotations
FilterCall ==
    /\ tpc = "filter"
    /\ tret' = FilterAnnotations(mir_annotations, asset_ids_set)
    /\ tpc' = "filtered"
    /\ UNCHANGED <<mir_annotations, mir_annotations0, mir_context, label_files, data_label_storage_file,
                   label_storage_file, asset_ids_set, sampled_asset_ids, add_prediction, model_storage>>
    /\ UNCHANGED <<sandboxVars, mergeVars, importVars>>

\* ----------------------------------------------------- sampling_annotations
\* sampling_annotations, lines 557-563: the loop over sampled_asset_ids.
\* m = the sampled annotation set so far
RECURSIVE SampleEntries(_, _, _)
SampleEntries(m, ann, ids) ==
    IF ids = <<>> THEN m
    ELSE LET asset_id == Head(ids)
             m1 == IF asset_id \in DOMAIN ann.prediction.image_annotations
                   THEN [m EXCEPT !.prediction.image_annotations =
                                      Put(@, asset_id, ann.prediction.image_annotations[asset_id])]
                   ELSE m
             m2 == IF asset_id \in DOMAIN ann.ground_truth.image_annotations
                   THEN [m1 EXCEPT !.ground_truth.image_annotations =
                                       Put(@, asset_id, ann.ground_truth.image_annotations[asset_id])]
                   ELSE m1
         IN  Only({SampleEntries(v, ann, Tail(ids)) : v \in {m2}})

\* sampling_annotations
SamplingAnnotations(ann, ids) ==
    LET m == Only({SampleEntries(NewMirAnnotations, ann, ids)})
    IN  [m EXCEPT !.prediction = CopyAnnotationsPredMeta(ann.prediction, [@ EXCEPT !.type = ann.prediction.type]),
                  !.ground_truth.type = ann.ground_truth.type]

\* the lists handed to sampling_annotations: any order, with repetitions
SampledIdLists == UNION {[1..n -> 1..(MaxToolAsset + 1)] : n \in 0..MaxToolAsset}

SamplingInit ==
    /\ mir_annotations \in MirAnnotationSets
    /\ mir_annotations0 = mir_annotations
    /\ sampled_asset_ids \in SampledIdLists
    /\ asset_ids_set = {}
    /\ add_prediction = FALSE
    /\ model_storage = NoModel
    /\ mir_context = EmptyMap
    /\ label_files = EmptyMap
    /\ data_label_storage_file = ""
    /\ label_storage_file = ""
    /\ tret = EmptyMap
    /\ tpc = "sampling"

SamplingCall ==
    /\ tpc = "sampling"
    /\ tret' = SamplingAnnotations(mir_annotations, sampled_asset_ids)
    /\ tpc' = "sampled"
    /\ UNCHANGED <<mir_annotations, mir_annotations0, mir_context, label_files, data_label_storage_file,
                   label_storage_file, asset_ids_set, sampled_asset_ids, add_prediction, model_storage>>
    /\ UNCHANGED <<sandboxVars, mergeVars, importVars>>

\* =========================================================================
\*                          ANNOTATION IMPORT
\* =========================================================================

MaxImportAsset == 2

STOP == "stop"
IGNORE == "ignore"
ADD == "add"

\* UserLabels.add_main_name: a new entry with the next unused id
AddMainName(reg, n) ==
    IF IdAndMainNameForName(reg, n)[1] >= 0 THEN reg ELSE Append(reg, Entry(n, {}))

\* UserLabels.add_main_names
RECURSIVE AddMainNames(_, _)
AddMainNames(reg, ns) ==
    IF ns = <<>> THEN reg
    ELSE Only({AddMainNames(r, Tail(ns)) : r \in {AddMainName(reg, Head(ns))}})

\* int(float(s)) of a decimal literal given in tenths: truncation towards zero
IntOfFloat(tenths) == IF tenths >= 0 THEN tenths \div 10 ELSE -((-tenths) \div 10)

\* mutant: width and height without the "+ 1"
BoxOfBndboxExclusive(b) ==
    [x |-> IntOfFloat(b.xmin), y |-> IntOfFloat(b.ymin),
     w |-> IntOfFloat(b.xmax) - IntOfFloat(b.xmin),
     h |-> IntOfFloat(b.ymax) - IntOfFloat(b.ymin)]

\* _object_dict_to_annotation, lines 76-86
BoxOfBndbox(b) ==
    [x |-> IntOfFloat(b.xmin), y |-> IntOfFloat(b.ymin),
     w |-> IntOfFloat(b.xmax) - IntOfFloat(b.xmin) + 1,
     h |-> IntOfFloat(b.ymax) - IntOfFloat(b.ymin) + 1]

NoBox == [x |-> 0, y |-> 0, w |-> 0, h |-> 0]

\* _object_dict_to_annotation: the annotation, or the exception it raises
ObjectDictToAnnotation(object_dict, cid) ==
    IF object_dict.has_bndbox
    THEN [err |-> "none", annotation |-> [class_id |-> cid, index |-> 0, box |-> BoxOfBndbox(object_dict.bndbox)]]
    ELSE IF object_dict.has_polygon
    THEN [err |-> "NotImplementedError", annotation |-> [class_id |-> cid, index |-> 0, box |-> NoBox]]
    ELSE [err |-> "InvalidArgs", annotation |-> [class_id |-> cid, index |-> 0, box |-> NoBox]]

\* mirpb.SingleImageAnnotations() and mirpb.SingleTaskAnnotations() as the importers fill them
NewImage == [boxes |-> <<>>, masks |-> <<>>, img_class_ids |-> {}]
NewImportTask ==
    [type |-> AT_UNKNOWN, image_annotations |-> EmptyMap, task_class_ids |-> {}, map_id_color |-> EmptyMap,
     eval_class_ids |-> {}, has_meta |-> FALSE]
ImageOf(m, a) == IF a \in DOMAIN m THEN m[a] ELSE NewImage

\* mutant: a dropped object consumes an index
ImportObjectIndexGaps(st, object_dict, add_if_not_found) ==
    LET found == IdAndMainNameForName(st.reg, object_dict.name)
        new_type_name == found[2]
        seen == new_type_name \in DOMAIN st.accu
        adds == ~seen /\ found[1] < 0 /\ add_if_not_found
        reg1 == IF adds THEN AddMainName(st.reg, new_type_name) ELSE st.reg
        cid == IF adds THEN IdAndMainNameForName(reg1, new_type_name)[1] ELSE found[1]
        accu1 == IF seen THEN [st.accu EXCEPT ![new_type_name] = @ + 1]
                 ELSE IF found[1] < 0 THEN Put(st.accu, new_type_name, 0)
                 ELSE st.accu
        made == ObjectDictToAnnotation(object_dict, cid)
    IN  IF cid < 0
        THEN [st EXCEPT !.reg = reg1, !.accu = accu1, !.idx = @ + 1]
        ELSE IF made.err # "none"
        THEN [st EXCEPT !.reg = reg1, !.accu = accu1, !.err = made.err]
        ELSE [st EXCEPT !.reg = reg1, !.accu = accu1,
                        !.boxes = Append(@, [made.annotation EXCEPT !.index = st.idx]),
                        !.idx = @ + 1,
                        !.ids = @ \cup {cid}]

\* mutant: the first occurrence of an unknown name counts as one
ImportObjectCountsFromOne(st, object_dict, add_if_not_found) ==
    LET found == IdAndMainNameForName(st.reg, object_dict.name)
        new_type_name == found[2]
        seen == new_type_name \in DOMAIN st.accu
        adds == ~seen /\ found[1] < 0 /\ add_if_not_found
        reg1 == IF adds THEN AddMainName(st.reg, new_type_name) ELSE st.reg
        cid == IF adds THEN IdAndMainNameForName(reg1, new_type_name)[1] ELSE found[1]
        accu1 == IF seen THEN [st.accu EXCEPT ![new_type_name] = @ + 1]
                 ELSE IF found[1] < 0 THEN Put(st.accu, new_type_name, 1)
                 ELSE st.accu
        made == ObjectDictToAnnotation(object_dict, cid)
    IN  IF cid < 0
        THEN [st EXCEPT !.reg = reg1, !.accu = accu1]
        ELSE IF made.err # "none"
        THEN [st EXCEPT !.reg = reg1, !.accu = accu1, !.err = made.err]
        ELSE [st EXCEPT !.reg = reg1, !.accu = accu1,
                        !.boxes = Append(@, [made.annotation EXCEPT !.index = st.idx]),
                        !.idx = @ + 1,
                        !.ids = @ \cup {cid}]

\* _import_annotations_voc_xml, lines 264-283: one object of an XML file.
\* st = [reg, accu, boxes, idx, ids, err]: the registry, the name -> count map,
\* the boxes of the image, anno_idx, img_class_ids, the exception raised
ImportObject(st, object_dict, add_if_not_found) ==
    LET found == IdAndMainNameForName(st.reg, object_dict.name)
        new_type_name == found[2]
        seen == new_type_name \in DOMAIN st.accu
        adds == ~seen /\ found[1] < 0 /\ add_if_not_found
        reg1 == IF adds THEN AddMainName(st.reg, new_type_name) ELSE st.reg
        cid == IF adds THEN IdAndMainNameForName(reg1, new_type_name)[1] ELSE found[1]
        accu1 == IF seen THEN [st.accu EXCEPT ![new_type_name] = @ + 1]
                 ELSE IF found[1] < 0 THEN Put(st.accu, new_type_name, 0)
                 ELSE st.accu
        made == ObjectDictToAnnotation(object_dict, cid)
    IN  IF cid < 0
        THEN [st EXCEPT !.reg = reg1, !.accu = accu1]
        ELSE IF made.err # "none"
        THEN [st EXCEPT !.reg = reg1, !.accu = accu1, !.err = made.err]
        ELSE [st EXCEPT !.reg = reg1, !.accu = accu1,
                        !.boxes = Append(@, [made.annotation EXCEPT !.index = st.idx]),
                        !.idx = @ + 1,
                        !.ids = @ \cup {cid}]

RECURSIVE ImportObjects(_, _, _)
ImportObjects(st, objects, add_if_not_found) ==
    IF objects = <<>> \/ st.err # "none" THEN st
    ELSE Only({ImportObjects(s, Tail(objects), add_if_not_found) :
                  s \in {ImportObject(st, Head(objects), add_if_not_found)}})

\* map_hashed_filename: asset hash -> main file name, in the order of the dict
FileNames == <<"img-a", "img-b", "img-c", "img-d">>
MapHashedFilename == [a \in 1..MaxImportAsset |-> FileNames[a]]

\* _import_annotations_voc_xml, lines 237-287: the XML file of one asset.
\* w = [reg, accu, task, cks, ids, err]: registry, name -> count map, the task
\* being filled, mir_annotation.image_cks, task_class_ids so far, the exception
ImportXmlAsset(w, dir, asset_hash, add_if_not_found) ==
    LET main_file_name == MapHashedFilename[asset_hash]
    IN  IF main_file_name \notin DOMAIN dir.xml \/ dir.xml[main_file_name].empty_file
        THEN w
        ELSE LET doc == dir.xml[main_file_name]
                 old_cks == IF asset_hash \in DOMAIN w.cks THEN w.cks[asset_hash].cks ELSE {}
                 cks1 == Put(w.cks, asset_hash,
                             [cks |-> old_cks \cup doc.cks, image_quality |-> doc.image_quality])
                 st == Only({ImportObjects([reg |-> w.reg, accu |-> w.accu,
                                            boxes |-> ImageOf(w.task.image_annotations, asset_hash).boxes,
                                            idx |-> 0, ids |-> {}, err |-> "none"],
                                           doc.objects, add_if_not_found)})
                 img == [ImageOf(w.task.image_annotations, asset_hash) EXCEPT !.boxes = st.boxes]
                 touched == st.idx > 0 \/ asset_hash \in DOMAIN w.task.image_annotations
             IN  IF st.err # "none"
                 THEN [w EXCEPT !.reg = st.reg, !.accu = st.accu, !.cks = cks1, !.err = st.err,
                                !.task.image_annotations = IF touched THEN Put(@, asset_hash, img) ELSE @]
                 ELSE [w EXCEPT !.reg = st.reg, !.accu = st.accu, !.cks = cks1,
                                !.ids = @ \cup st.ids,
                                !.task.image_annotations =
                                    Put(@, asset_hash, [img EXCEPT !.img_class_ids = st.ids])]

RECURSIVE ImportXmlAssets(_, _, _, _)
ImportXmlAssets(w, dir, a, add_if_not_found) ==
    IF a > MaxImportAsset \/ w.err # "none" THEN w
    ELSE Only({ImportXmlAssets(v, dir, a + 1, add_if_not_found) :
                  v \in {ImportXmlAsset(w, dir, a, add_if_not_found)}})

\* mutant: unknown names are added under every strategy
ImportAnnotationsVocXmlAlwaysAdds(w, dir, strat) ==
    Only({IF r.err # "none" THEN r ELSE [r EXCEPT !.task.task_class_ids = r.ids] :
             r \in {ImportXmlAssets([w EXCEPT !.ids = {}], dir, 1, TRUE)}})

\* _import_annotations_voc_xml
ImportAnnotationsVocXml(w, dir, strat) ==
    Only({IF r.err # "none" THEN r ELSE [r EXCEPT !.task.task_class_ids = r.ids] :
             r \in {ImportXmlAssets([w EXCEPT !.ids = {}], dir, 1, strat = ADD)}})

\* a record of labelmap.txt after strip(): the number of pieces of split(':'),
\* the first piece, and the pieces of split(',') of the second one; a piece that
\* int() accepts is [num |-> TRUE, val |-> its value]
Line(n, name, color) == [nfields |-> n, name |-> name, color |-> color]
Num(v) == [num |-> TRUE, val |-> v]
NotNum == [num |-> FALSE, val |-> 0]

\* the test as the format describes it: the three values are 0, 0, 0
IsBackgroundTuple(pos_ints) == pos_ints = <<0, 0, 0>>

\* _parse_labelmap, line 355: pos_ints is a list and (0, 0, 0) a tuple, which
\* Python never finds equal
IsBackground(pos_ints) == FALSE

\* _parse_labelmap, lines 339-359: one record.
\* acc = [names, color, err]: the keys of map_cname_color in insertion order,
\* the map itself, the exception raised
ParseRecord(acc, record, reg) ==
    IF record.nfields = 1 THEN acc
    ELSE IF record.nfields # 4 THEN acc
    ELSE IF \E i \in 1..Len(record.color) : ~record.color[i].num
    THEN [acc EXCEPT !.err = "ValueError"]
    ELSE LET ints == [i \in 1..Len(record.color) |-> record.color[i].val]
             pos_ints == IF Len(ints) = 1 THEN <<ints[1], ints[1], ints[1]>> ELSE ints
             cname == IdAndMainNameForName(reg, record.name)[2]
         IN  IF Len(pos_ints) # 3 THEN acc
             ELSE IF IsBackground(pos_ints) THEN acc
             ELSE [acc EXCEPT !.names = IF cname \in DOMAIN acc.color THEN @ ELSE Append(@, cname),
                              !.color = Put(@, cname, pos_ints)]

RECURSIVE ParseRecords(_, _, _)
ParseRecords(acc, records, reg) ==
    IF records = <<>> \/ acc.err # "none" THEN acc
    ELSE Only({ParseRecords(v, Tail(records), reg) : v \in {ParseRecord(acc, Head(records), reg)}})

\* _parse_labelmap
ParseLabelmap(dir, reg) ==
    IF ~dir.has_labelmap
    THEN [names |-> <<>>, color |-> EmptyMap, err |-> "InvalidArgs"]
    ELSE ParseRecords([names |-> <<>>, color |-> EmptyMap, err |-> "none"], dir.labelmap, reg)

\* _import_annotations_seg_mask, lines 180-190: the color table.
\* t = [accu, map_id_color, map_color_cid]
RECURSIVE BuildColorMap(_, _, _, _)
BuildColorMap(t, names, color, reg) ==
    IF names = <<>> THEN t
    ELSE LET found == IdAndMainNameForName(reg, Head(names))
             t1 == [t EXCEPT !.accu = IF found[2] \in DOMAIN @ THEN @ ELSE Put(@, found[2], 0)]
             t2 == IF found[1] >= 0
                   THEN [t1 EXCEPT !.map_id_color = Put(@, found[1], color[Head(names)]),
                                   !.map_color_cid = Put(@, color[Head(names)], found[1])]
                   ELSE t1
         IN  Only({BuildColorMap(v, Tail(names), color, reg) : v \in {t2}})

\* _import_annotations_seg_mask, lines 193-228: the mask file of one asset
ImportMaskAsset(images, dir, asset_hash, main_file_name, map_color_cid) ==
    IF main_file_name \notin DOMAIN dir.masks THEN images
    ELSE LET file == dir.masks[main_file_name]
             present == file.colors \cap DOMAIN map_color_cid
             img == ImageOf(images, asset_hash)
         IN  IF ~file.readable \/ file.format # "png" THEN images
             ELSE Put(images, asset_hash,
                      [img EXCEPT !.masks = Append(@, [semantic_mask |-> present]),
                                  !.img_class_ids = {map_color_cid[c] : c \in present}])

RECURSIVE ImportMaskAssets(_, _, _, _, _)
ImportMaskAssets(images, dir, ids, names, map_color_cid) ==
    IF ids = <<>> THEN images
    ELSE Only({ImportMaskAssets(v, dir, Tail(ids), names, map_color_cid) :
                  v \in {ImportMaskAsset(images, dir, Head(ids), names[Head(ids)], map_color_cid)}})

\* _import_annotations_seg_mask; ids and names are the items of map_hashed_filename
ImportAnnotationsSegMask(w, dir, strat, ids, names) ==
    LET parsed == Only({ParseLabelmap(dir, w.reg)})
        reg1 == Only({IF strat = ADD THEN AddMainNames(w.reg, parsed.names) ELSE w.reg})
        t == Only({BuildColorMap([accu |-> w.accu, map_id_color |-> w.task.map_id_color,
                                  map_color_cid |-> EmptyMap],
                                 parsed.names, parsed.color, reg1)})
    IN  IF parsed.err # "none" THEN [w EXCEPT !.err = parsed.err]
        ELSE [w EXCEPT !.reg = reg1, !.accu = t.accu,
                       !.task.map_id_color = t.map_id_color,
                       !.task.image_annotations = ImportMaskAssets(@, dir, ids, names, t.map_color_cid)]

\* _import_annotations_from_dir
ImportAnnotationsFromDir(w, dir, strat, declared) ==
    LET type == IF dir.has_seg_dir /\ dir.has_labelmap THEN AT_SEG_MASK ELSE declared
        typed == [w EXCEPT !.task.type = type]
    IN  IF type = AT_DET_BOX THEN ImportAnnotationsVocXml(typed, dir, strat)
        ELSE IF type = AT_SEG_MASK
        THEN ImportAnnotationsSegMask(typed, dir, strat, [a \in 1..MaxImportAsset |-> a], MapHashedFilename)
        ELSE [typed EXCEPT !.err = "NotImplementedError"]

\* _import_annotation_meta: eval_class_ids, or the exception
ImportAnnotationMeta(w, dir) ==
    IF ~dir.has_meta THEN w
    ELSE IF ~dir.meta_is_dict THEN [w EXCEPT !.err = "InvalidMetaYaml"]
    ELSE [w EXCEPT !.task.eval_class_ids =
                       {IdAndMainNameForName(w.reg, dir.eval_class_names[i])[1] :
                            i \in 1..Len(dir.eval_class_names)} \ {-1},
                   !.task.has_meta = TRUE]

\* ------------------------------------------------ the bounded import inputs
\* bndbox values are decimal literals, written in tenths: 10, 10, 19, 14 ...
Bndbox(x1, y1, x2, y2) == [xmin |-> x1, ymin |-> y1, xmax |-> x2, ymax |-> y2]
ObjectDict(n, b) == [name |-> n, has_bndbox |-> TRUE, has_polygon |-> FALSE, bndbox |-> b]
NoShape(n) == [name |-> n, has_bndbox |-> FALSE, has_polygon |-> FALSE, bndbox |-> Bndbox(0, 0, 0, 0)]
Polygon(n) == [name |-> n, has_bndbox |-> FALSE, has_polygon |-> TRUE, bndbox |-> Bndbox(0, 0, 0, 0)]
B1 == Bndbox(100, 100, 190, 140)
B2 == Bndbox(5, -5, 27, 39)
B3 == Bndbox(-30, 20, -10, 20)
XmlDoc(objects) == [empty_file |-> FALSE, cks |-> {"weather"}, image_quality |-> 1, objects |-> objects]
EmptyXmlFile == [empty_file |-> TRUE, cks |-> {}, image_quality |-> 0, objects |-> <<>>]
FirstDocs ==
    {XmlDoc(<<ObjectDict("cat", B1)>>),
     XmlDoc(<<ObjectDict("fox", B1), ObjectDict("cat", B2), ObjectDict("fox", B3)>>),
     XmlDoc(<<ObjectDict("kitty", B2), ObjectDict("wolf", B1), ObjectDict("dog", B3)>>),
     XmlDoc(<<ObjectDict("dog", B3), NoShape("cat")>>)}
OtherDocs ==
    {EmptyXmlFile,
     XmlDoc(<<>>),
     XmlDoc(<<ObjectDict("fox", B2), ObjectDict("dog", B1), Polygon("wolf"), ObjectDict("wolf", B3)>>)}
DocsOf(a) == IF a = 1 THEN FirstDocs ELSE OtherDocs

NoDir ==
    [given |-> FALSE, has_seg_dir |-> FALSE, has_labelmap |-> FALSE, labelmap |-> <<>>, xml |-> EmptyMap,
     masks |-> EmptyMap, has_meta |-> FALSE, meta_is_dict |-> FALSE, eval_class_names |-> <<>>]
\* the XML directories: a file for each asset of a set, each from its documents
XmlMaps(docs(_)) ==
    UNION {{[a \in DOMAIN f |-> f[a]] : f \in {g \in [{FileNames[a] : a \in as} -> FirstDocs \cup OtherDocs] :
                                                 \A a \in as : g[FileNames[a]] \in docs(a)}} :
           as \in SUBSET (1..MaxImportAsset)}
VocDirs ==
    {[NoDir EXCEPT !.given = TRUE, !.xml = x] : x \in XmlMaps(DocsOf)}
MetaDirs ==
    {[NoDir EXCEPT !.given = TRUE, !.xml = [f \in {FileNames[1]} |-> XmlDoc(<<ObjectDict("wolf", B1)>>)],
                   !.has_meta = TRUE, !.meta_is_dict = d, !.eval_class_names = <<"dog", "wolf", "eel">>] :
        d \in BOOLEAN}

Labelmaps ==
    {<<Line(4, "background", <<Num(0), Num(0), Num(0)>>), Line(4, "cat", <<Num(10), Num(20), Num(30)>>)>>,
     <<Line(1, "...", <<>>), Line(3, "cat", <<Num(1), Num(1), Num(1)>>), Line(4, "cat", <<Num(1), Num(2)>>),
       Line(5, "dog", <<Num(2), Num(2), Num(2)>>), Line(4, "dog", <<Num(7)>>),
       Line(4, "kitty", <<Num(10), Num(20), Num(30)>>)>>,
     <<Line(4, "cat", <<Num(10), Num(20), Num(30)>>), Line(4, "dog", <<NotNum>>),
       Line(4, "fox", <<Num(1), Num(2), Num(3)>>)>>,
     <<Line(4, "fox", <<Num(1), Num(2), Num(3)>>), Line(4, "cat", <<Num(10), Num(20), Num(30)>>)>>}
MaskFile(ok, fmt, colors) == [readable |-> ok, format |-> fmt, colors |-> colors]
MaskMaps ==
    {[f \in {FileNames[a] : a \in 1..k} |->
         IF f = FileNames[1] THEN MaskFile(TRUE, "png", {<<0, 0, 0>>, <<10, 20, 30>>, <<9, 9, 9>>})
         ELSE IF f = FileNames[2] THEN MaskFile(FALSE, "png", {})
         ELSE MaskFile(TRUE, "png", {<<7, 7, 7>>, <<1, 2, 3>>})] : k \in 1..MaxImportAsset}
SegDirs ==
    {[NoDir EXCEPT !.given = TRUE, !.has_seg_dir = TRUE, !.has_labelmap = TRUE, !.labelmap = l, !.masks = m] :
        l \in Labelmaps, m \in MaskMaps}
PredictionDirs == {NoDir} \cup VocDirs \cup MetaDirs \cup SegDirs
GroundtruthDirs ==
    {NoDir} \cup {d \in VocDirs : \A f \in DOMAIN d.xml : Len(d.xml[f].objects) \in {0, 3}}
            \cup {d \in SegDirs : Len(d.labelmap) = 2 /\ DOMAIN d.masks = {FileNames[1]}}

ImportRegistries ==
    {<<Entry("cat", {"kitty"}), Entry("dog", {})>>,
     <<Entry("dog", {}), Entry("background", {}), Entry("cat", {"kitty"})>>}

NoImportErr == [kind |-> "none", at |-> "none", names |-> {}]
NewImportAnnotations == [prediction |-> NewImportTask, ground_truth |-> NewImportTask, image_cks |-> EmptyMap]

ImportInit ==
    /\ class_type_manager \in ImportRegistries
    /\ class_type_manager0 = class_type_manager
    /\ anno_import_result = EmptyMap
    /\ mir_annotation = NewImportAnnotations
    /\ prediction_dir \in PredictionDirs
    /\ groundtruth_dir \in GroundtruthDirs
    /\ unknown_types_strategy \in {STOP, IGNORE, ADD}
    /\ anno_type \in {AT_DET_BOX, AT_SEG_MASK}
    /\ ipc = "prediction"
    /\ ierr = NoImportErr

\* the state handed to the importers for one task slot
Work(slot) ==
    [reg |-> class_type_manager, accu |-> anno_import_result, task |-> mir_annotation[slot],
     cks |-> mir_annotation.image_cks, ids |-> {}, err |-> "none"]

\* import_annotations, lines 106-121: the prediction directory and its meta.yaml
ImportPrediction ==
    /\ ipc = "prediction"
    /\ IF ~prediction_dir.given
       THEN /\ ipc' = "ground_truth"
            /\ UNCHANGED <<class_type_manager, anno_import_result, mir_annotation, ierr>>
       ELSE \E w1 \in {ImportAnnotationsFromDir(Work("prediction"), prediction_dir,
                                                unknown_types_strategy, anno_type)} :
            \E w2 \in {IF w1.err = "none" THEN ImportAnnotationMeta(w1, prediction_dir) ELSE w1} :
                /\ class_type_manager' = w2.reg
                /\ anno_import_result' = w2.accu
                /\ mir_annotation' = [mir_annotation EXCEPT !.prediction = w2.task, !.image_cks = w2.cks]
                /\ IF w2.err = "none"
                   THEN ipc' = "ground_truth" /\ UNCHANGED ierr
                   ELSE ipc' = "raised" /\ ierr' = [kind |-> w2.err, at |-> "prediction", names |-> {}]
    /\ UNCHANGED <<class_type_manager0, prediction_dir, groundtruth_dir, unknown_types_strategy, anno_type>>
    /\ UNCHANGED <<sandboxVars, mergeVars, toolVars>>

\* import_annotations, lines 123-135: the ground-truth directory
ImportGroundTruth ==
    /\ ipc = "ground_truth"
    /\ IF ~groundtruth_dir.given
       THEN /\ ipc' = "finish"
            /\ UNCHANGED <<class_type_manager, anno_import_result, mir_annotation, ierr>>
       ELSE \E w1 \in {ImportAnnotationsFromDir(Work("ground_truth"), groundtruth_dir,
                                                unknown_types_strategy, anno_type)} :
                /\ class_type_manager' = w1.reg
                /\ anno_import_result' = w1.accu
                /\ mir_annotation' = [mir_annotation EXCEPT !.ground_truth = w1.task, !.image_cks = w1.cks]
                /\ IF w1.err = "none"
                   THEN ipc' = "finish" /\ UNCHANGED ierr
                   ELSE ipc' = "raised" /\ ierr' = [kind |-> w1.err, at |-> "ground_truth", names |-> {}]
    /\ UNCHANGED <<class_type_manager0, prediction_dir, groundtruth_dir, unknown_types_strategy, anno_type>>
    /\ UNCHANGED <<sandboxVars, mergeVars, toolVars>>

\* mutant: the strategy is not looked at
ImportFinishAnyStrategy ==
    /\ ipc = "finish"
    /\ IF DOMAIN anno_import_result # {}
       THEN /\ ipc' = "raised"
            /\ ierr' = [kind |-> "UnknownTypes", at |-> "finish", names |-> DOMAIN anno_import_result]
       ELSE /\ ipc' = "done"
            /\ UNCHANGED ierr
    /\ UNCHANGED <<class_type_manager, class_type_manager0, anno_import_result, mir_annotation,
                   prediction_dir, groundtruth_dir, unknown_types_strategy, anno_type>>
    /\ UNCHANGED <<sandboxVars, mergeVars, toolVars>>

\* import_annotations, lines 137-141: UnknownTypes under STOP, or the returned map
ImportFinish ==
    /\ ipc = "finish"
    /\ IF unknown_types_strategy = STOP /\ DOMAIN anno_import_result # {}
       THEN /\ ipc' = "raised"
            /\ ierr' = [kind |-> "UnknownTypes", at |-> "finish", names |-> DOMAIN anno_import_result]
       ELSE /\ ipc' = "done"
            /\ UNCHANGED ierr
    /\ UNCHANGED <<class_type_manager, class_type_manager0, anno_import_result, mir_annotation,
                   prediction_dir, groundtruth_dir, unknown_types_strategy, anno_type>>
    /\ UNCHANGED <<sandboxVars, mergeVars, toolVars>>

\* ------------------------------------------------------- mining_annotations
\* an entry of infer-result.json: the asset file name (directory, stem,
\* extension), whether its 'boxes' is a list, and the boxes
Detection(stem, ext, is_list, boxes) ==
    [asset_name |-> [dir |-> "/in/assets/", stem |-> stem, ext |-> ext], boxes_is_list |-> is_list, boxes |-> boxes]
InferBox(n) == [class_name |-> n, box |-> [x |-> 1, y |-> 2, w |-> 3, h |-> 4]]
\* os.path.splitext(os.path.basename(asset_name))[0]
AssetIdOfName(asset_name) == asset_name.stem

InferResults ==
    {[exists |-> FALSE, is_dict |-> FALSE, detections |-> <<>>],
     [exists |-> TRUE, is_dict |-> FALSE, detections |-> <<>>],
     [exists |-> TRUE, is_dict |-> TRUE,
      detections |-> <<Detection(1, ".jpg", TRUE, <<InferBox("eel"), InferBox("dog"), InferBox("cat")>>),
                       Detection(2, ".png", FALSE, <<>>),
                       Detection(MaxToolAsset + 1, ".jpg", TRUE, <<InferBox("bird")>>),
                       Detection(MaxToolAsset + 2, ".jpg", TRUE, <<InferBox("cat")>>)>>]}
InferDirs ==
    {[NoDir EXCEPT !.given = TRUE, !.has_seg_dir = TRUE, !.has_labelmap = l,
                   !.labelmap = <<Line(4, "cat", <<Num(10), Num(20), Num(30)>>), Line(4, "eel", <<Num(5)>>)>>,
                   !.masks = [a \in {1, MaxToolAsset + 1} |-> MaskFile(TRUE, "png", {<<10, 20, 30>>, <<5, 5, 5>>})]] :
        l \in BOOLEAN}
ModelStorage(type, infer, dir) ==
    [model_type |-> type, class_names |-> <<"dog", "cat", "eel">>, executor_config |-> "{mining}",
     model_meta |-> "model-2", infer |-> infer, dir |-> dir]
ModelStorages ==
    {ModelStorage(AT_DET_BOX, i, NoDir) : i \in InferResults} \cup
    {ModelStorage(AT_SEG_MASK, CHOOSE i \in InferResults : ~i.exists, d) : d \in InferDirs}

\* _get_detbox_infer_annotations, lines 644-658: the boxes of one image
RECURSIVE InferBoxes(_, _, _)
InferBoxes(boxes, annotations, reg) ==
    IF annotations = <<>> THEN boxes
    ELSE LET class_id == IdAndMainNameForName(reg, Head(annotations).class_name)[1]
             added == IF class_id < 0 THEN boxes
                      ELSE Append(boxes, [class_id |-> class_id, index |-> Len(boxes),
                                          box |-> Head(annotations).box])
         IN  Only({InferBoxes(v, Tail(annotations), reg) : v \in {added}})

\* _get_detbox_infer_annotations, lines 634-659: the image map after the loop
RECURSIVE InferImages(_, _, _, _)
InferImages(images, detections, ids, reg) ==
    IF detections = <<>> THEN images
    ELSE LET d == Head(detections)
             asset_id == AssetIdOfName(d.asset_name)
             next == IF ~d.boxes_is_list \/ asset_id \notin ids THEN images
                     ELSE Put(images, asset_id, [NewImage EXCEPT !.boxes = InferBoxes(<<>>, d.boxes, reg)])
         IN  Only({InferImages(v, Tail(detections), ids, reg) : v \in {next}})

\* _get_detbox_infer_annotations: the task, or the exception of open() and of
\* detections.items()
GetDetboxInferAnnotations(task, infer, ids, reg) ==
    IF ~infer.exists THEN [task |-> task, err |-> "FileNotFoundError"]
    ELSE IF ~infer.is_dict THEN [task |-> task, err |-> "AttributeError"]
    ELSE [task |-> [task EXCEPT !.image_annotations = InferImages(@, infer.detections, ids, reg)],
          err |-> "none"]

\* the elements of an id set as a list
SortedIds(S) == CHOOSE s \in Perms(S) : \A i, j \in 1..Len(s) : i < j => s[i] < s[j]

\* mining_annotations, lines 582-596: the fresh predictions
FreshPrediction(task, storage, ids, reg) ==
    IF storage.model_type = AT_DET_BOX THEN GetDetboxInferAnnotations(task, storage.infer, ids, reg)
    ELSE IF storage.model_type = AT_SEG_MASK
    THEN LET w == Only({ImportAnnotationsSegMask(
                            [reg |-> reg, accu |-> EmptyMap, task |-> task, cks |-> EmptyMap, ids |-> {},
                             err |-> "none"],
                            storage.dir, IGNORE, SortedIds(ids), [a \in ids |-> a])})
         IN  [task |-> w.task, err |-> w.err]
    ELSE [task |-> task, err |-> "none"]

\* mining_annotations, lines 605-608: the existing predictions of the candidates
OldPrediction(task, src_task, ids) ==
    CopyAnnotationsPredMeta(src_task,
        [task EXCEPT !.image_annotations =
            CopyEntries(src_task.image_annotations, @, (DOMAIN src_task.image_annotations) \cap ids)])

\* mutant: the custom keys are not carried forward
MiningCarryForwardNoCks(m, ann, ids) ==
    [m EXCEPT !.ground_truth.type = ann.ground_truth.type,
              !.ground_truth.image_annotations =
                  CopyEntries(ann.ground_truth.image_annotations, @,
                              (DOMAIN ann.ground_truth.image_annotations) \cap ids)]

\* mining_annotations, lines 611-620: ground truth and custom keys
MiningCarryForward(m, ann, ids) ==
    [m EXCEPT !.ground_truth.type = ann.ground_truth.type,
              !.ground_truth.image_annotations =
                  CopyEntries(ann.ground_truth.image_annotations, @,
                              (DOMAIN ann.ground_truth.image_annotations) \cap ids),
              !.image_cks = CopyEntries(ann.image_cks, @, (DOMAIN ann.image_cks) \cap ids)]

\* the annotation sets handed to mining_annotations: one box in every image
MiningAnnotationSets ==
    {a \in MirAnnotationSets :
        \A t \in {"prediction", "ground_truth"} :
            \A i \in DOMAIN a[t].image_annotations : Len(a[t].image_annotations[i].boxes) = 1}

MiningInit ==
    /\ mir_annotations \in MiningAnnotationSets
    /\ mir_annotations0 = mir_annotations
    /\ asset_ids_set \in AssetIdSets
    /\ sampled_asset_ids = <<>>
    /\ add_prediction \in BOOLEAN
    /\ model_storage \in ModelStorages
    /\ mir_context = EmptyMap
    /\ label_files = [f \in {SrcLabelFile} |-> SrcRegistry]
    /\ data_label_storage_file = ""
    /\ label_storage_file = SrcLabelFile
    /\ tret = EmptyMap
    /\ tpc = "mining"

\* mining_annotations; cls_id_mgr is the registry of label_storage_file
MiningCall ==
    /\ tpc = "mining"
    /\ LET cls_id_mgr == label_files[label_storage_file]
           m0 == [NewMirAnnotations EXCEPT !.prediction.type = model_storage.model_type]
       IN  IF add_prediction
           THEN \E fresh \in {FreshPrediction(m0.prediction, model_storage, asset_ids_set, cls_id_mgr)} :
                    IF fresh.err # "none"
                    THEN /\ tpc' = "raised"
                         /\ tret' = EmptyMap
                    ELSE \E eval \in Perms({IdAndMainNameForName(cls_id_mgr, model_storage.class_names[i])[1] :
                                               i \in 1..Len(model_storage.class_names)} \ {-1}) :
                            /\ tret' = MiningCarryForward(
                                           [m0 EXCEPT !.prediction =
                                               [fresh.task EXCEPT !.eval_class_ids = eval,
                                                                  !.executor_config = model_storage.executor_config,
                                                                  !.model = model_storage.model_meta]],
                                           mir_annotations, asset_ids_set)
                            /\ tpc' = "mined"
           ELSE /\ tret' = MiningCarryForward(
                               [m0 EXCEPT !.prediction = OldPrediction(@, mir_annotations.prediction, asset_ids_set)],
                               mir_annotations, asset_ids_set)
                /\ tpc' = "mined"
    /\ UNCHANGED <<mir_annotations, mir_annotations0, mir_context, label_files, data_label_storage_file,
                   label_storage_file, asset_ids_set, sampled_asset_ids, add_prediction, model_storage>>
    /\ UNCHANGED <<sandboxVars, mergeVars, importVars>>

ToolIdle ==
    /\ mir_annotations = EmptyMap
    /\ mir_annotations0 = EmptyMap
    /\ mir_context = EmptyMap
    /\ label_files = EmptyMap
    /\ data_label_storage_file = ""
    /\ label_storage_file = ""
    /\ asset_ids_set = {}
    /\ sampled_asset_ids = <<>>
    /\ add_prediction = FALSE
    /\ model_storage = NoModel
    /\ tret = EmptyMap
    /\ tpc = "idle"

ImportIdle ==
    /\ class_type_manager = <<>>
    /\ class_type_manager0 = <<>>
    /\ anno_import_result = EmptyMap
    /\ mir_annotation = EmptyMap
    /\ prediction_dir = NoDir
    /\ groundtruth_dir = NoDir
    /\ unknown_types_strategy = ""
    /\ anno_type = AT_UNKNOWN
    /\ ipc = "idle"
    /\ ierr = NoImportErr

SandboxIdle ==
    /\ root = EmptyMap
    /\ backup = [exists |-> FALSE, entries |-> EmptyMap]
    /\ root0 = EmptyMap
    /\ backup0 = [exists |-> FALSE, entries |-> EmptyMap]
    /\ nfuncs = 0
    /\ plan = <<>>
    /\ pos = 0
    /\ calls = <<>>
    /\ pc = "idle"
    /\ err = NoErr
    /\ phases = <<>>

MergeIdle ==
    /\ host = EmptyMap
    /\ guest = EmptyMap
    /\ host0 = EmptyMap
    /\ guest0 = EmptyMap
    /\ strategy = ""
    /\ mpc = "idle"
    /\ merr = NoMergeErr
    /\ matched = NoMatch

Init == SandboxInit /\ MergeIdle /\ ToolIdle /\ ImportIdle
Next ==
    \/ DetectSandboxSrcVer
    \/ Backup
    \/ Upgrade
    \/ RollBack
    \/ Cleanup
Spec == Init /\ [][Next]_vars

InitMerge == MergeInit /\ SandboxIdle /\ ToolIdle /\ ImportIdle
NextMerge ==
    \/ MergePrediction
    \/ MergeGroundTruth
    \/ MergeImageCks
SpecMerge == InitMerge /\ [][NextMerge]_vars

InitMatch == MatchInit /\ SandboxIdle /\ ToolIdle /\ ImportIdle
NextMatch ==
    \/ MatchCall
SpecMatch == InitMatch /\ [][NextMatch]_vars

InitCopy == CopyInit /\ SandboxIdle /\ MergeIdle /\ ImportIdle
NextCopy ==
    \/ CopyAnnotations
SpecCopy == InitCopy /\ [][NextCopy]_vars

InitFilter == FilterInit /\ SandboxIdle /\ MergeIdle /\ ImportIdle
NextFilter ==
    \/ FilterCall
SpecFilter == InitFilter /\ [][NextFilter]_vars

InitImport == ImportInit /\ SandboxIdle /\ MergeIdle /\ ToolIdle
NextImport ==
    \/ ImportPrediction
    \/ ImportGroundTruth
    \/ ImportFinish
SpecImport == InitImport /\ [][NextImport]_vars

InitUsers == UsersInit /\ MergeIdle /\ ToolIdle /\ ImportIdle
NextUsers ==
    \/ DetectSandboxSrcVer
    \/ Backup
    \/ Upgrade
    \/ UpgradeChangesUsers
    \/ RollBack
    \/ Cleanup
SpecUsers == InitUsers /\ [][NextUsers]_vars

InitSampling == SamplingInit /\ SandboxIdle /\ MergeIdle /\ ImportIdle
NextSampling ==
    \/ SamplingCall
SpecSampling == InitSampling /\ [][NextSampling]_vars

InitMining == MiningInit /\ SandboxIdle /\ MergeIdle /\ ImportIdle
NextMining ==
    \/ MiningCall
SpecMining == InitMining /\ [][NextMining]_vars

\* -------------------------------------------------------------------------
\*                     PROPERTIES OF THE SANDBOX MIGRATION
\* -------------------------------------------------------------------------

UsersOf(fs) == DOMAIN DetectUsersAndRepos(fs)
UpgradeRaised == calls # <<>> /\ calls[Len(calls)].raised
LastCall == calls[Len(calls)]
SamePair(a, b) == a.user = b.user /\ a.repo = b.repo

C2_NonEmptyBackupFailsUntouched ==
    (DOMAIN backup0.entries # {}) =>
        /\ pc \in {"detect", "update", "raised"}
        /\ (pc = "raised" /\ DetectSrcVerError(root0) = NoErr) => err.kind = "BackupDirNotEmpty"
        /\ root = root0
        /\ backup = backup0
        /\ calls = <<>>
        /\ phases = <<>>

C2_Witness ==
    /\ pc = "raised"
    /\ err.kind = "BackupDirNotEmpty"
    /\ \E u \in UsersOf(root0) : DetectUsersAndRepos(root0)[u] # {}

Readable(fs, u) == fs[u].labels # "missing"
TwoVersions(fs) ==
    \E u, v \in UsersOf(fs) :
        /\ Readable(fs, u) /\ Readable(fs, v)
        /\ DeclaredVersion(fs[u].labels) # DeclaredVersion(fs[v].labels)
Untouched == root = root0 /\ backup = backup0 /\ calls = <<>> /\ phases = <<>>

C4_CallsInOrder ==
    LET n == Len(calls)
        \* the repositories in the order of their first call
        firsts == {i \in 1..n : \A j \in 1..(i - 1) : ~SamePair(calls[j], calls[i])}
    IN  /\ \A i \in 1..n : calls[i].raised => i = n
        /\ \A i, j, k \in 1..n :
               (i < j /\ j < k /\ SamePair(calls[i], calls[k])) => SamePair(calls[i], calls[j])
        /\ \A i, j, k \in 1..n :
               (i < j /\ j < k /\ calls[i].user = calls[k].user) => calls[i].user = calls[j].user
        /\ \A i \in firsts : calls[i].func = 1
        /\ \A i \in 1..(n - 1) :
               IF SamePair(calls[i], calls[i + 1])
               THEN calls[i + 1].func = calls[i].func + 1
               ELSE calls[i].func = nfuncs
        /\ \A i \in 1..n : calls[i].func \in 1..nfuncs
        /\ Cardinality(firsts) <= Len(plan)
        /\ \A i \in firsts :
               SamePair(calls[i], plan[Cardinality({j \in firsts : j <= i})])

\* two functions ran on a first repository, then the first function raised on a
\* second one
C4_Witness ==
    /\ nfuncs = 2
    /\ Len(calls) = 3
    /\ calls[3].raised
    /\ ~SamePair(calls[1], calls[3])
    /\ Len(plan) >= 3

\* C5: with an empty or absent backup directory and no upgrade function
\* raising, update() returns normally: every function was applied exactly once
\* to every discovered (user, repo) pair, the backup directory is removed and
\* no rollback was performed.
C5_SuccessAppliesAllOnce ==
    LET u2r == DetectUsersAndRepos(root0)
        pairs == {[user |-> u, repo |-> r] : u \in DOMAIN u2r, r \in RepoNames}
        found == {q \in pairs : q.repo \in u2r[q.user]}
    IN  /\ (pc = "done") =>
              /\ \A q \in found, f \in 1..nfuncs :
                     Cardinality({k \in 1..Len(calls) : SamePair(calls[k], q) /\ calls[k].func = f}) = 1
              /\ Len(calls) = Cardinality(found) * nfuncs
              /\ \A k \in 1..Len(calls) : ~calls[k].raised
              /\ \A q \in found : root[q.user].repos[q.repo].data = root0[q.user].repos[q.repo].data + nfuncs
              /\ ~backup.exists
              /\ phases = <<"backup", "upgrade", "cleanup">> \/ phases = <<"backup", "cleanup">>
              /\ err = NoErr
        /\ (pc = "raised" /\ DetectSrcVerError(root0) = NoErr /\ ~BackupDirNotEmpty(backup0)) => UpgradeRaised
        /\ (pc = "upgrade" /\ pos = Len(plan) * nfuncs) => ENABLED Cleanup

C5_Witness ==
    /\ pc = "done"
    /\ Len(plan) = 3
    /\ nfuncs = 2
    /\ ~backup0.exists
    /\ Len(calls) = 6

\* the number of phases of a kind that update() has gone through
PhaseCount(kinds) == Cardinality({i \in 1..Len(phases) : phases[i] \in kinds})
UpdateReturned == pc = "done" \/ (pc = "raised" /\ phases # <<>>)

ExactDigits(name, n) == Len(name) = n /\ \A i \in 1..n : name[i] \in Digits
ExactUsers(fs) == {u \in DOMAIN fs : ExactDigits(u, ID_LEN_USER_ID)}
ExactRepos(fs, u) == {r \in DOMAIN fs[u].repos : ExactDigits(r, ID_LEN_REPO_ID) /\ fs[u].repos[r].git}
PlannedPairs == {<<plan[i].user, plan[i].repo>> : i \in 1..Len(plan)}

\* C24: discovery returns as users only the entries of the sandbox root whose
\* name is exactly the fixed-width numeric user id, and as repos of a user only
\* the entries named exactly by the fixed-width numeric repo id that hold a
\* .git directory; the backup directory is never a user. Stated on what
\* _backup copies and on the repositories that update() visits.
C24_Original ==
    /\ ~MatchDigits(BackupName, ID_LEN_USER_ID)
    /\ (pc = "upgrade" /\ calls = <<>>) =>
          /\ DOMAIN backup.entries = ExactUsers(root0)
          /\ PlannedPairs = UNION {{<<u, r>> : r \in ExactRepos(root0, u)} : u \in ExactUsers(root0)}

\* C30: the user directories that rollback restores are those that _backup
\* copied at the start of update(), whatever the update functions did to the
\* sandbox before one of them raised; the entries of the sandbox root that are
\* not user directories are as they were.
C30_Original ==
    (pc = "raised" /\ phases # <<>> /\ phases[Len(phases)] = "rollback") =>
        /\ \A u \in UsersOf(root0) : u \in DOMAIN root /\ root[u] = root0[u]
        /\ \A n \in (DOMAIN root0) \ UsersOf(root0) : n \in DOMAIN root /\ root[n] = root0[n]

\* -------------------------------------------------------------------------
\*                       PROPERTIES OF THE MERGE ENGINE
\* -------------------------------------------------------------------------

Pairs == {"prediction", "ground_truth", "image_cks"}
TaskPairs == {"prediction", "ground_truth"}
Entries(ann, p) == IF p = "image_cks" THEN ann.image_cks ELSE ann[p].image_annotations
Ids(ann, p) == DOMAIN Entries(ann, p)
Joint(p) == Ids(host0, p) \cap Ids(guest0, p)
\* the call that merges pair p has been made
Attempted(p) ==
    CASE p = "prediction" -> mpc \in {"ground_truth", "image_cks", "done", "raised"}
      [] p = "ground_truth" -> \/ mpc \in {"image_cks", "done"}
                               \/ mpc = "raised" /\ merr.pair \in {"ground_truth", "image_cks"}
      [] p = "image_cks" -> mpc = "done" \/ (mpc = "raised" /\ merr.pair = "image_cks")
TypesClash(p) ==
    /\ p \in TaskPairs
    /\ host0[p].type # AT_UNKNOWN /\ guest0[p].type # AT_UNKNOWN
    /\ host0[p].type # guest0[p].type

\* C6: for each pair, merging under "stop" when host and guest share an asset id
\* fails with MergeConflict and leaves that pair of the host unmodified: its
\* asset-id map, its entries and its type are as before the call.
C6_Original ==
    \A p \in Pairs :
        (strategy = "stop" /\ Joint(p) # {} /\ Attempted(p)) =>
            /\ mpc = "raised"
            /\ merr = [kind |-> "MergeConflict", pair |-> p]
            /\ Entries(host, p) = Entries(host0, p)
            /\ p \in TaskPairs => host[p].type = host0[p].type

\* what the code does in that case: the pair's merge fails, with InvalidAnnoType
\* when both types are concrete and differ and with MergeConflict otherwise; the
\* entries are as before, but line 497 has already replaced an unknown host type
\* by the guest's type when MergeConflict is raised
StopConflictBehaviour ==
    \A p \in Pairs :
        (strategy = "stop" /\ Joint(p) # {} /\ Attempted(p)) =>
            /\ mpc = "raised"
            /\ merr = [kind |-> IF TypesClash(p) THEN "InvalidAnnoType" ELSE "MergeConflict", pair |-> p]
            /\ Entries(host, p) = Entries(host0, p)
            /\ p \in TaskPairs =>
                  host[p].type = IF host0[p].type = AT_UNKNOWN /\ merr.kind = "MergeConflict"
                                 THEN guest0[p].type ELSE host0[p].type

\* C7: after a successful merge, every asset id held by both sides carries the
\* guest's entry under "guest" and the host's original entry under "host".
C7_JointEntries ==
    (mpc = "done") =>
        \A p \in Pairs : \A a \in Joint(p) :
            /\ strategy = "guest" => Entries(host, p)[a] = Entries(guest0, p)[a]
            /\ strategy = "host" => Entries(host, p)[a] = Entries(host0, p)[a]

C7_Witness ==
    /\ mpc = "done"
    /\ strategy = "guest"
    /\ \A p \in Pairs : Joint(p) # {} /\ Ids(host0, p) # Ids(guest0, p)

\* C8: after a successful merge under "host" or "guest" the host's ids of each
\* pair are the union of both sides' ids, host-only entries are unchanged,
\* guest-only entries are the guest's, and the guest is not modified.
C8_UnionOfBoth ==
    (mpc = "done" /\ strategy \in {"host", "guest"}) =>
        /\ \A p \in Pairs :
              /\ Ids(host, p) = Ids(host0, p) \cup Ids(guest0, p)
              /\ \A a \in Ids(host0, p) \ Ids(guest0, p) : Entries(host, p)[a] = Entries(host0, p)[a]
              /\ \A a \in Ids(guest0, p) \ Ids(host0, p) : Entries(host, p)[a] = Entries(guest0, p)[a]
        /\ guest = guest0

C8_Witness ==
    /\ mpc = "done"
    /\ strategy = "host"
    /\ \A p \in Pairs :
          /\ Ids(host0, p) \ Ids(guest0, p) # {}
          /\ Ids(guest0, p) \ Ids(host0, p) # {}
    /\ Joint("prediction") # {}

\* C9: match_asset_ids returns (host_only, guest_only, joint) that cover
\* host_ids \cup guest_ids, are pairwise disjoint, with joint the intersection,
\* host_only inside host_ids and guest_only inside guest_ids.
C9_MatchPartition ==
    (mpc = "matched") =>
        LET h == matched.args[1]
            g == matched.args[2]
            ho == matched.out[1]
            go == matched.out[2]
            j == matched.out[3]
        IN  /\ ho \cup go \cup j = h \cup g
            /\ ho \cap go = {} /\ ho \cap j = {} /\ go \cap j = {}
            /\ j = h \cap g
            /\ ho \subseteq h
            /\ go \subseteq g

C9_Witness ==
    /\ mpc = "matched"
    /\ matched.out[1] # {} /\ matched.out[2] # {} /\ matched.out[3] # {}
    /\ Cardinality(matched.args[1] \cup matched.args[2]) = MaxMatchId

\* C10: a task-annotation pair whose two types are concrete and differ fails
\* with InvalidAnnoType, entries and type of the host unchanged; otherwise the
\* host's type becomes its own type when concrete, the guest's when unknown.
C10_TypeCompatibility ==
    \A p \in TaskPairs :
        Attempted(p) =>
            IF TypesClash(p)
            THEN /\ mpc = "raised"
                 /\ merr = [kind |-> "InvalidAnnoType", pair |-> p]
                 /\ host[p].image_annotations = host0[p].image_annotations
                 /\ host[p].type = host0[p].type
            ELSE /\ merr # [kind |-> "InvalidAnnoType", pair |-> p]
                 /\ host[p].type = IF host0[p].type # AT_UNKNOWN THEN host0[p].type ELSE guest0[p].type

\* the ground-truth types clash after the prediction pair took over the guest's type
C10_Witness ==
    /\ mpc = "raised"
    /\ merr = [kind |-> "InvalidAnnoType", pair |-> "ground_truth"]
    /\ host0.prediction.type = AT_UNKNOWN
    /\ host.prediction.type = AT_SEG_MASK
    /\ Ids(host0, "ground_truth") # {} /\ Ids(guest0, "ground_truth") # {}

\* C29: merge_annotations reads the strategy name without regard to case: with
\* a joint id in a pair, "STOP" fails on that pair as "stop" does, and "Host",
\* "GUEST" resolve the joint entries as "host", "guest" do.
C29_Original ==
    \A p \in Pairs :
        /\ (Lower(strategy) = "stop" /\ Joint(p) # {} /\ Attempted(p)) =>
              /\ mpc = "raised"
              /\ merr = [kind |-> IF TypesClash(p) THEN "InvalidAnnoType" ELSE "MergeConflict", pair |-> p]
        /\ (mpc = "done" /\ Lower(strategy) = "guest") =>
              \A a \in Joint(p) : Entries(host, p)[a] = Entries(guest0, p)[a]
        /\ (mpc = "done" /\ Lower(strategy) = "host") =>
              \A a \in Joint(p) : Entries(host, p)[a] = Entries(host0, p)[a]

\* -------------------------------------------------------------------------
\*                     PROPERTIES OF copy_annotations
\* -------------------------------------------------------------------------

CopyTasks == {"prediction", "ground_truth"}
SamePath == data_label_storage_file = label_storage_file
BothEmpty ==
    /\ DOMAIN mir_annotations0.prediction.image_annotations = {}
    /\ DOMAIN mir_annotations0.ground_truth.image_annotations = {}
\* the destination id of the main name that source id c has (-1 without counterpart)
DstIdOf(c) ==
    IdAndMainNameForName(label_files[label_storage_file],
                         MainNameForId(label_files[data_label_storage_file], c))[1]
\* the positions of a list whose element has a destination counterpart, and the
\* j-th of them
KeptPos(ids) == {i \in 1..Len(ids) : DstIdOf(ids[i]) >= 0}
NthKept(ids, j) == CHOOSE i \in KeptPos(ids) : Cardinality({x \in KeptPos(ids) : x <= i}) = j
ClassIdsOf(boxes) == [i \in 1..Len(boxes) |-> boxes[i].class_id]
\* the translation is not the identity on the ids in use
Retranslates == \E c \in 0..(Len(SrcRegistry) - 1) : DstIdOf(c) # c

\* C11: copy_annotations with the same path for the source and the destination
\* label file, or with empty prediction and ground-truth image maps, returns an
\* empty map and leaves the annotation set as it was.
C11_IdentityOnSameFile ==
    (tpc = "copied" /\ (SamePath \/ BothEmpty)) =>
        /\ tret = EmptyMap
        /\ mir_annotations = mir_annotations0

\* the same path, with boxes and eval ids in the set
C11_Witness ==
    /\ tpc = "copied"
    /\ SamePath
    /\ \E a \in DOMAIN mir_annotations0.prediction.image_annotations :
          Len(mir_annotations0.prediction.image_annotations[a].boxes) = MaxBoxes
    /\ mir_annotations0.prediction.eval_class_ids # <<>>
    /\ DOMAIN mir_annotations0.ground_truth.image_annotations # {}

\* the translation of one task after the call: per image the boxes with a
\* destination counterpart, in their order, with the destination id; the same
\* for eval_class_ids
TaskTranslated(t) ==
    /\ DOMAIN mir_annotations[t].image_annotations = DOMAIN mir_annotations0[t].image_annotations
    /\ \A a \in DOMAIN mir_annotations0[t].image_annotations :
          LET old == mir_annotations0[t].image_annotations[a].boxes
              new == mir_annotations[t].image_annotations[a].boxes
              cls == ClassIdsOf(old)
          IN  /\ Len(new) = Cardinality(KeptPos(cls))
              /\ \A j \in 1..Len(new) :
                    /\ new[j].class_id >= 0
                    /\ new[j].class_id = DstIdOf(old[NthKept(cls, j)].class_id)
                    /\ new[j].index = old[NthKept(cls, j)].index
    /\ LET old == mir_annotations0[t].eval_class_ids
           new == mir_annotations[t].eval_class_ids
       IN  /\ Len(new) = Cardinality(KeptPos(old))
           /\ \A j \in 1..Len(new) : new[j] = DstIdOf(old[NthKept(old, j)])

\* C12 as stated: after copy_annotations with different label files every task
\* is translated.
C12_Original ==
    (tpc = "copied" /\ ~SamePath) => \A t \in CopyTasks : TaskTranslated(t)

\* C12 (amended): after copy_annotations with different label files and a
\* non-empty prediction or ground-truth image map, in both tasks every remaining
\* object carries the non-negative destination id of the main name of its source
\* id, objects without destination counterpart are removed, the remaining
\* objects keep their order, and eval_class_ids holds the translated ids of the
\* source eval ids with a counterpart, in order.
C12_Translated ==
    (tpc = "copied" /\ ~SamePath /\ ~BothEmpty) => \A t \in CopyTasks : TaskTranslated(t)

\* an image loses its middle box and keeps the two around it, with new ids
C12_Witness ==
    /\ tpc = "copied"
    /\ ~SamePath
    /\ \E a \in DOMAIN mir_annotations0.prediction.image_annotations :
          LET old == mir_annotations0.prediction.image_annotations[a].boxes
              new == mir_annotations.prediction.image_annotations[a].boxes
          IN  /\ Len(old) = 3 /\ Len(new) = 2
              /\ new[1].index = 0 /\ new[2].index = 2
              /\ new[1].class_id # old[1].class_id
    /\ Len(mir_annotations.prediction.eval_class_ids) = 2
    /\ Len(mir_annotations0.prediction.eval_class_ids) = 3

C26_Original ==
    (tpc = "copied" /\ ~SamePath) =>
        \A t \in CopyTasks : \A a \in DOMAIN mir_annotations[t].image_annotations :
            LET img == mir_annotations[t].image_annotations[a]
            IN  img.img_class_ids = {img.boxes[j].class_id : j \in 1..Len(img.boxes)}

\* what the call does to img_class_ids: nothing
ImgClassIdsKept ==
    (tpc = "copied") =>
        \A t \in CopyTasks : \A a \in DOMAIN mir_annotations[t].image_annotations :
            mir_annotations[t].image_annotations[a].img_class_ids =
                mir_annotations0[t].image_annotations[a].img_class_ids

\* -------------------------------------------------------------------------
\*             PROPERTIES OF filter_annotations AND mining_annotations
\* -------------------------------------------------------------------------

\* the entries of one of the three maps of an annotation set
ToolEntries(ann, p) == IF p = "image_cks" THEN ann.image_cks ELSE ann[p].image_annotations
\* map m holds exactly the entries of the source's map with an id in S
RestrictedTo(m, srcm, S) ==
    /\ DOMAIN m = S \cap DOMAIN srcm
    /\ \A a \in DOMAIN m : m[a] = srcm[a]
RECURSIVE SumBoxes(_, _)
SumBoxes(m, ids) ==
    IF ids = {} THEN 0
    ELSE LET a == CHOOSE x \in ids : TRUE
         IN  Len(m[a].boxes) + SumBoxes(m, ids \ {a})

\* C14: filter_annotations returns a new set whose asset ids are all in S, in
\* which every source entry with an id in S is present and equal to the source
\* entry (so the object count is that of the source restricted to S), with the
\* task types and the prediction metadata of the source; the source is not
\* modified.
C14_FilterRestricts ==
    (tpc = "filtered") =>
        /\ \A p \in Pairs :
              /\ DOMAIN ToolEntries(tret, p) \subseteq asset_ids_set
              /\ RestrictedTo(ToolEntries(tret, p), ToolEntries(mir_annotations0, p), asset_ids_set)
        /\ \A t \in CopyTasks :
              /\ tret[t].type = mir_annotations0[t].type
              /\ SumBoxes(tret[t].image_annotations, DOMAIN tret[t].image_annotations) =
                     SumBoxes(mir_annotations0[t].image_annotations,
                              asset_ids_set \cap DOMAIN mir_annotations0[t].image_annotations)
        /\ tret.prediction.eval_class_ids = mir_annotations0.prediction.eval_class_ids
        /\ tret.prediction.executor_config = mir_annotations0.prediction.executor_config
        /\ tret.prediction.model = mir_annotations0.prediction.model
        /\ mir_annotations = mir_annotations0

\* S keeps one entry and drops another of every map, and names an unknown asset
C14_Witness ==
    /\ tpc = "filtered"
    /\ \A p \in Pairs :
          /\ DOMAIN ToolEntries(tret, p) # {}
          /\ DOMAIN ToolEntries(tret, p) # DOMAIN ToolEntries(mir_annotations0, p)
    /\ \E a \in asset_ids_set : \A p \in Pairs : a \notin DOMAIN ToolEntries(mir_annotations0, p)
    /\ SumBoxes(tret.prediction.image_annotations, DOMAIN tret.prediction.image_annotations) > 0
    /\ tret.prediction.eval_class_ids # <<>>

\* C19: mining_annotations returns a set whose ground-truth entries and
\* custom-key entries are exactly the source's entries with an id in the
\* candidate set, equal to them, with or without fresh inference; without fresh
\* inference its prediction entries are exactly the source's prediction entries
\* with an id in the candidate set, unchanged, with the source's prediction
\* metadata.
C19_MiningCarriesForward ==
    (tpc = "mined") =>
        /\ RestrictedTo(tret.ground_truth.image_annotations, mir_annotations0.ground_truth.image_annotations,
                        asset_ids_set)
        /\ RestrictedTo(tret.image_cks, mir_annotations0.image_cks, asset_ids_set)
        /\ ~add_prediction =>
              /\ RestrictedTo(tret.prediction.image_annotations, mir_annotations0.prediction.image_annotations,
                              asset_ids_set)
              /\ tret.prediction.eval_class_ids = mir_annotations0.prediction.eval_class_ids
              /\ tret.prediction.executor_config = mir_annotations0.prediction.executor_config
              /\ tret.prediction.model = mir_annotations0.prediction.model
        /\ mir_annotations = mir_annotations0

\* fresh detection-box inference: new predictions, while ground truth and custom
\* keys keep one entry and lose another
C19_Witness ==
    /\ tpc = "mined"
    /\ add_prediction
    /\ model_storage.model_type = AT_DET_BOX
    /\ \E a \in DOMAIN tret.prediction.image_annotations : Len(tret.prediction.image_annotations[a].boxes) = 2
    /\ DOMAIN tret.ground_truth.image_annotations # {}
    /\ DOMAIN tret.ground_truth.image_annotations # DOMAIN mir_annotations0.ground_truth.image_annotations
    /\ DOMAIN tret.image_cks # {}
    /\ DOMAIN tret.image_cks # DOMAIN mir_annotations0.image_cks

\* the host's pair p holds the merge of the two sides: the ids of both, the
\* entries held by one side only as that side has them, the joint entries as
\* the strategy says
MergedPair(p) ==
    /\ Ids(host, p) = Ids(host0, p) \cup Ids(guest0, p)
    /\ \A a \in Ids(host0, p) \ Ids(guest0, p) : Entries(host, p)[a] = Entries(host0, p)[a]
    /\ \A a \in Ids(guest0, p) \ Ids(host0, p) : Entries(host, p)[a] = Entries(guest0, p)[a]
    /\ \A a \in Joint(p) :
          Entries(host, p)[a] = IF Lower(strategy) = "guest" THEN Entries(guest0, p)[a] ELSE Entries(host0, p)[a]

\* C20: merge_annotations is not atomic across pairs. The pairs are merged in
\* the order predictions, ground truths, custom keys; when the ground-truth or
\* the custom-keys pair raises (a "stop" conflict or a type mismatch), the host
\* keeps the merged state of the pairs before it, with the guest-only prediction
\* entries added and the guest's eval_class_ids appended to the host's, and the
\* pairs after it are untouched.
C20_NotAtomicAcrossPairs ==
    (mpc = "raised") =>
        /\ merr.pair \in {"ground_truth", "image_cks"} =>
              /\ MergedPair("prediction")
              /\ host.prediction.eval_class_ids =
                     host0.prediction.eval_class_ids \o guest0.prediction.eval_class_ids
        /\ merr.pair = "image_cks" => MergedPair("ground_truth")
        /\ merr.pair = "prediction" => Entries(host, "ground_truth") = Entries(host0, "ground_truth")
        /\ merr.pair \in {"prediction", "ground_truth"} => Entries(host, "image_cks") = Entries(host0, "image_cks")
        /\ guest = guest0

\* a "stop" conflict on the ground-truth pair after the prediction pair took
\* over guest-only entries
C20_Witness ==
    /\ mpc = "raised"
    /\ merr = [kind |-> "MergeConflict", pair |-> "ground_truth"]
    /\ strategy = "stop"
    /\ Ids(host0, "prediction") # {}
    /\ Ids(host, "prediction") # Ids(host0, "prediction")
    /\ host.prediction.eval_class_ids # host0.prediction.eval_class_ids

\* set(L): the ids of a list
IdsOfList(ids) == {ids[i] : i \in 1..Len(ids)}

\* C28: for any annotation set and any list L of asset ids,
\* sampling_annotations(source, L) equals filter_annotations(source, set(L)):
\* the same prediction, ground-truth and custom-key entries restricted to the
\* ids of L, the same task types and the same prediction metadata.
C28_Original ==
    (tpc = "sampled") => tret = FilterAnnotations(mir_annotations0, IdsOfList(sampled_asset_ids))

\* what the two calls share: everything but the custom keys, which
\* sampling_annotations leaves empty
SamplingBehaviour ==
    (tpc = "sampled") =>
        LET filtered == FilterAnnotations(mir_annotations0, IdsOfList(sampled_asset_ids))
        IN  /\ tret.prediction = filtered.prediction
            /\ tret.ground_truth = filtered.ground_truth
            /\ tret.image_cks = EmptyMap
            /\ mir_annotations = mir_annotations0

\* -------------------------------------------------------------------------
\*                     PROPERTIES OF import_annotations
\* -------------------------------------------------------------------------

Slots == {"prediction", "ground_truth"}
DirOf(slot) == IF slot = "prediction" THEN prediction_dir ELSE groundtruth_dir
\* the importer that runs on a directory
IsMaskDir(dir) == (dir.has_seg_dir /\ dir.has_labelmap) \/ anno_type = AT_SEG_MASK
\* the XML files that the importer reads
ReadFiles(dir) == {f \in DOMAIN dir.xml : (\E a \in 1..MaxImportAsset : FileNames[a] = f) /\ ~dir.xml[f].empty_file}
AssetOfFile(f) == CHOOSE a \in 1..MaxImportAsset : FileNames[a] = f
KnownBefore(n) == IdAndMainNameForName(class_type_manager0, n)[1] >= 0
MainNameBefore(n) == IdAndMainNameForName(class_type_manager0, n)[2]
\* a labelmap line that follows the format
WellFormed(l) == l.nfields = 4 /\ Len(l.color) \in {1, 3} /\ \A i \in 1..Len(l.color) : l.color[i].num
\* the class names met in a directory
EncounteredNames(dir) ==
    IF ~dir.given THEN {}
    ELSE IF IsMaskDir(dir)
    THEN {MainNameBefore(dir.labelmap[i].name) : i \in {j \in 1..Len(dir.labelmap) : WellFormed(dir.labelmap[j])}}
    ELSE UNION {{MainNameBefore(dir.xml[f].objects[i].name) : i \in 1..Len(dir.xml[f].objects)} :
                f \in ReadFiles(dir)}
UnknownNames(dir) == {n \in EncounteredNames(dir) : ~KnownBefore(n)}
\* the directory of a slot has been imported without an exception
Imported(slot) ==
    /\ DirOf(slot).given
    /\ \/ ipc \in {"finish", "done"}
       \/ ipc = "raised" /\ ierr.at = "finish"
       \/ slot = "prediction" /\ (ipc = "ground_truth" \/ (ipc = "raised" /\ ierr.at = "ground_truth"))
BothProcessed == ipc = "done" \/ (ipc = "raised" /\ ierr.at = "finish")
\* every file of the directory of a slot has left its entry in the annotation set
FilesImported(slot) ==
    LET dir == DirOf(slot)
    IN  (dir.given /\ ~IsMaskDir(dir)) =>
            \A f \in ReadFiles(dir) : AssetOfFile(f) \in DOMAIN mir_annotation[slot].image_annotations

BackgroundLabelmap ==
    <<Line(4, "background", <<Num(0), Num(0), Num(0)>>), Line(4, "cat", <<Num(10), Num(20), Num(30)>>)>>
ColorsOf(task) == {task.map_id_color[c] : c \in DOMAIN task.map_id_color}

\* C16: importing a labelmap made of a (0,0,0) line and the line
\* cat:10,20,30:: gives a color table of exactly one class; color (0,0,0) is
\* never assigned to a class id and, under ADD, the name of the (0,0,0) line is
\* not registered.
C16_Original ==
    \A s \in Slots :
        (Imported(s) /\ IsMaskDir(DirOf(s))) =>
            /\ <<0, 0, 0>> \notin ColorsOf(mir_annotation[s])
            /\ (DirOf(s).labelmap = BackgroundLabelmap) =>
                  /\ Cardinality(DOMAIN mir_annotation[s].map_id_color) = 1
                  /\ (unknown_types_strategy = ADD /\ ~KnownBefore("background")) =>
                         IdAndMainNameForName(class_type_manager, "background")[1] < 0

\* C17: the labelmap parser never fails on a malformed line: the lines that do
\* not follow the format are skipped and every well-formed line of the file is
\* parsed.
C17_Original ==
    \A s \in Slots :
        LET dir == DirOf(s)
            attempted == dir.given /\ (Imported(s) \/ (ipc = "raised" /\ ierr.at = s))
        IN  (attempted /\ IsMaskDir(dir) /\ dir.has_labelmap) =>
                /\ ~(ierr.at = s /\ ierr.kind = "ValueError")
                /\ \A i \in 1..Len(dir.labelmap) :
                      WellFormed(dir.labelmap[i]) =>
                          IdAndMainNameForName(class_type_manager, dir.labelmap[i].name)[2]
                              \in DOMAIN anno_import_result

\* the objects of a file that the box importer accepts: those of a registered
\* class, and under ADD all of them
AcceptedPos(objects) ==
    {i \in 1..Len(objects) : unknown_types_strategy = ADD \/ KnownBefore(objects[i].name)}
NthAccepted(objects, j) ==
    CHOOSE i \in AcceptedPos(objects) : Cardinality({x \in AcceptedPos(objects) : x <= i}) = j
IsInteger(tenths) == tenths % 10 = 0
IntegerBounds(b) == IsInteger(b.xmin) /\ IsInteger(b.ymin) /\ IsInteger(b.xmax) /\ IsInteger(b.ymax)

\* C18: every accepted XML object with a bndbox of integer bounds gets
\* box.x = xmin, box.y = ymin, box.w = xmax - xmin + 1, box.h = ymax - ymin + 1.
C18_InclusiveBox ==
    \A s \in Slots :
        (Imported(s) /\ ~IsMaskDir(DirOf(s))) =>
            \A f \in ReadFiles(DirOf(s)) :
                LET objects == DirOf(s).xml[f].objects
                    boxes == mir_annotation[s].image_annotations[AssetOfFile(f)].boxes
                IN  /\ Len(boxes) = Cardinality(AcceptedPos(objects))
                    /\ \A j \in 1..Len(boxes) :
                          LET b == objects[NthAccepted(objects, j)].bndbox
                          IN  IntegerBounds(b) =>
                                  /\ boxes[j].box.x * 10 = b.xmin
                                  /\ boxes[j].box.y * 10 = b.ymin
                                  /\ boxes[j].box.w * 10 = b.xmax - b.xmin + 10
                                  /\ boxes[j].box.h * 10 = b.ymax - b.ymin + 10

\* the object with bndbox (10, 10, 19, 14) has been imported
C18_Witness ==
    /\ ipc = "done"
    /\ \E a \in DOMAIN mir_annotation.prediction.image_annotations :
          \E j \in 1..Len(mir_annotation.prediction.image_annotations[a].boxes) :
              mir_annotation.prediction.image_annotations[a].boxes[j].box = [x |-> 10, y |-> 10, w |-> 10, h |-> 5]
    /\ \E a \in DOMAIN mir_annotation.ground_truth.image_annotations :
          \E j \in 1..Len(mir_annotation.ground_truth.image_annotations[a].boxes) :
              mir_annotation.ground_truth.image_annotations[a].boxes[j].box = [x |-> -3, y |-> 2, w |-> 3, h |-> 1]

\* the id that the registry gives a name at the end of the import
IdAfter(n) == IdAndMainNameForName(class_type_manager, n)[1]

\* C21: in the box importer, for every imported asset, an object whose class
\* name resolves to a negative id is dropped and its name is recorded in the
\* unknown-names map; the accepted objects carry the indices 0, 1, 2, ... in
\* file order, a dropped object consuming none; img_class_ids of the image is
\* the set of class ids of its accepted objects, and task_class_ids is the
\* union of img_class_ids over the imported images.
C21_IndicesAndClassIds ==
    \A s \in Slots :
        (Imported(s) /\ ~IsMaskDir(DirOf(s))) =>
            /\ \A f \in ReadFiles(DirOf(s)) :
                  LET objects == DirOf(s).xml[f].objects
                      img == mir_annotation[s].image_annotations[AssetOfFile(f)]
                  IN  /\ Len(img.boxes) = Cardinality(AcceptedPos(objects))
                      /\ \A i \in (1..Len(objects)) \ AcceptedPos(objects) :
                            /\ IdAfter(objects[i].name) < 0
                            /\ MainNameBefore(objects[i].name) \in DOMAIN anno_import_result
                      /\ \A j \in 1..Len(img.boxes) :
                            /\ img.boxes[j].index = j - 1
                            /\ img.boxes[j].class_id = IdAfter(objects[NthAccepted(objects, j)].name)
                            /\ img.boxes[j].class_id >= 0
                      /\ img.img_class_ids = {img.boxes[j].class_id : j \in 1..Len(img.boxes)}
            /\ DOMAIN mir_annotation[s].image_annotations = {AssetOfFile(f) : f \in ReadFiles(DirOf(s))}
            /\ mir_annotation[s].task_class_ids =
                   UNION {mir_annotation[s].image_annotations[a].img_class_ids :
                              a \in DOMAIN mir_annotation[s].image_annotations}

\* IGNORE: of the objects kitty, wolf, dog the second one is dropped and the
\* other two carry the indices 0 and 1
C21_Witness ==
    /\ ipc = "done"
    /\ unknown_types_strategy = IGNORE
    /\ ~IsMaskDir(prediction_dir)
    /\ "wolf" \in DOMAIN anno_import_result
    /\ \E f \in ReadFiles(prediction_dir) :
          LET objects == prediction_dir.xml[f].objects
              img == mir_annotation.prediction.image_annotations[AssetOfFile(f)]
          IN  /\ Len(objects) = 3
              /\ AcceptedPos(objects) = {1, 3}
              /\ Len(img.boxes) = 2
              /\ img.boxes[2].index = 1
              /\ Cardinality(img.img_class_ids) = 2
    /\ Cardinality(mir_annotation.prediction.task_class_ids) = 2

\* the directories that import_annotations was given are all read by the box
\* importer
BoxImport == \A s \in Slots : DirOf(s).given => ~IsMaskDir(DirOf(s))
\* the number of objects named n (by its main name) in the files read
OccurrencesIn(dir, n) ==
    IF ~dir.given THEN 0
    ELSE Cardinality(UNION {{<<f, i>> : i \in {j \in 1..Len(dir.xml[f].objects) :
                                                   MainNameBefore(dir.xml[f].objects[j].name) = n}} :
                            f \in ReadFiles(dir)})
Occurrences(n) == OccurrencesIn(prediction_dir, n) + OccurrencesIn(groundtruth_dir, n)

\* the names that the box importer met in the files it read
BoxNames == UNION {IF DirOf(s).given /\ ~IsMaskDir(DirOf(s)) THEN EncounteredNames(DirOf(s)) ELSE {} : s \in Slots}

C25_Original ==
    LET unknown == UnknownNames(prediction_dir) \cup UnknownNames(groundtruth_dir)
    IN  /\ (BothProcessed /\ unknown_types_strategy = STOP /\ unknown = {}) =>
              /\ ipc = "done"
              /\ anno_import_result = EmptyMap
        /\ (ierr.kind = "UnknownTypes") => unknown # {}

\* the entries that the import appended to the registry
AddedEntries == {class_type_manager[i] : i \in (Len(class_type_manager0) + 1)..Len(class_type_manager)}

\* C27: under STOP and IGNORE import_annotations leaves the class-id registry
\* as it was. Under ADD the registry only grows at its end, the registered
\* names keeping their ids, and every name added is a name that was unknown
\* when the box importer met it or a name listed in a labelmap.
C27_RegistryFrame ==
    /\ unknown_types_strategy \in {STOP, IGNORE} => class_type_manager = class_type_manager0
    /\ Len(class_type_manager) >= Len(class_type_manager0)
    /\ SubSeq(class_type_manager, 1, Len(class_type_manager0)) = class_type_manager0
    /\ \A e \in AddedEntries :
          /\ e.aliases = {}
          /\ ~KnownBefore(e.main_name)
          /\ e.main_name \in UnknownNames(prediction_dir) \cup UnknownNames(groundtruth_dir)
    /\ Cardinality(AddedEntries) = Len(class_type_manager) - Len(class_type_manager0)

\* ADD: "fox" comes from the labelmap of the prediction directory and "wolf"
\* from the XML files of the ground-truth directory
C27_Witness ==
    /\ ipc = "done"
    /\ unknown_types_strategy = ADD
    /\ IsMaskDir(prediction_dir) /\ prediction_dir.given
    /\ ~IsMaskDir(groundtruth_dir) /\ groundtruth_dir.given
    /\ {e.main_name : e \in AddedEntries} = {"fox", "wolf"}

====
